---- MODULE Spec2Model ----
(***************************************************************************)
(* A model of the SLURM Cluster Manager extension (dhimitriosduka1/sCode):  *)
(* the three globalState-backed caches (JobPathCache, SubmitScriptCache,    *)
(* PinnedJobsCache), SlurmService.getJobs / getJobHistory, the two tree     *)
(* data providers and the cancel-job command.                               *)
(*                                                                         *)
(* Strings the code inspects character by character (job ids, paths) are    *)
(* sequences of one-character strings.  An optional value (T | undefined)   *)
(* is the empty sequence or a one-element sequence.                         *)
(***************************************************************************)
EXTENDS Integers, Sequences, FiniteSets, TLC

VARIABLES
    now,          \* Date.now(), in seconds
    ticks,        \* number of clock advances so far
    calls,        \* number of cache method calls so far
    pinnedJobs,   \* PinnedJobsCache.pinnedJobs : jobId -> timestamp
    pinStore,     \* globalState value under 'slurmPinnedJobs'
    pinWrites,    \* globalState.update calls on that key still in flight
    pathCache,    \* JobPathCache.cache : jobId -> CachedJobPaths
    pathStore,    \* globalState value under 'slurmJobPathCache'
    pathWrites,   \* globalState.update calls on that key still in flight
    scriptCache,  \* SubmitScriptCache.cache : jobId -> CachedSubmitScript
    scriptStore,  \* globalState value under 'slurmSubmitScriptCache'
    scriptWrites, \* globalState.update calls on that key still in flight
    files,        \* the files that exist in the submit-scripts directory
    scriptHist,   \* history: what cacheScript did since the cache was constructed
    lastCall,     \* the cache method entered by the last step (op "none" otherwise)
    lastRet,      \* the cache method that returned in the last step
    fetchPc,      \* where the getJobs() call in progress stands
    jobs,         \* its local array `jobs`
    cbPc,         \* where the Promise.all callback of each job stands
    fetchLog,     \* history: what the commands of this getJobs() call answered
    getJobsRet,   \* how the last getJobs() call completed
    historyRet,   \* how the last getJobHistory() call completed, and on what
    cluster,      \* the version of the listing squeue and sacct would print now
    cachedJobs,   \* cachedJobs of SlurmJobProvider and of JobHistoryProvider
    cachedSlurmAvailable, \* JobHistoryProvider.cachedSlurmAvailable
    fired,        \* onDidChangeTreeData fired and the root not yet asked for again
    rootCalls,    \* the getRootItems() calls in progress of each provider
    lastStarted,  \* history: what the fetch each provider started last returns
    viewLog,      \* history: each provider's refresh() calls and what it rendered last
    historyDays,        \* JobHistoryProvider.historyDays
    searchFilter,       \* JobHistoryProvider.searchFilter
    currentPage,        \* JobHistoryProvider.currentPage
    totalFilteredJobs,  \* JobHistoryProvider.totalFilteredJobs
    pageLog,      \* history: the page of the job history rendered last, if any
    confirmCancelJob, \* the setting slurmClusterManager.confirmCancelJob
    commands,     \* number of slurmJobs.cancelJob invocations so far
    cmd,          \* the slurmJobs.cancelJob invocation in progress, or the last one
    scancelCalls, \* the job ids slurmService.cancelJob was called with
    args,         \* the arguments of the function under study
    ret,          \* what it returned (NotCalled before the call)
    pathCalls,    \* history: the getHistoryJobPaths() calls made, and where each stands
    activation,          \* the extension: "inactive", "active" or "deactivated"
    autoRefreshEnabled,  \* the setting slurmClusterManager.autoRefreshEnabled
    autoRefreshInterval, \* the setting slurmClusterManager.autoRefreshInterval
    autoRefreshTimer,    \* the module variable autoRefreshTimer
    intervals,           \* the interval timers set and not cleared
    intervalsSet,        \* number of setInterval calls so far
    statusBarItem        \* what updateStatusBar showed last

clockVars == <<now, ticks>>
budgetVars == <<calls>>
pinVars == <<pinnedJobs, pinStore, pinWrites>>
pathVars == <<pathCache, pathStore, pathWrites>>
scriptVars == <<scriptCache, scriptStore, scriptWrites, files, scriptHist>>
eventVars == <<lastCall, lastRet>>
jobsVars == <<fetchPc, jobs, cbPc, fetchLog, getJobsRet, historyRet>>

providerVars ==
    <<cluster, cachedJobs, cachedSlurmAvailable, fired, rootCalls, lastStarted, viewLog>>
cancelVars == <<confirmCancelJob, commands, cmd, scancelCalls>>

callVars == <<args, ret>>
historyPathVars == <<pathCalls>>
pageVars == <<historyDays, searchFilter, currentPage, totalFilteredJobs, pageLog>>
timerVars ==
    <<activation, autoRefreshEnabled, autoRefreshInterval, autoRefreshTimer, intervals,
      intervalsSet, statusBarItem>>

\* The state outside the caches.
appVars ==
    <<jobsVars, providerVars, cancelVars, callVars, historyPathVars, pageVars, timerVars>>

vars == <<clockVars, budgetVars, pinVars, pathVars, scriptVars, eventVars, appVars>>

\* What a step of one component leaves alone.
exceptClock == <<pinVars, pathVars, scriptVars, appVars>>
exceptPin == <<pathVars, scriptVars, appVars>>
exceptPath == <<pinVars, scriptVars, appVars>>
exceptScript == <<pinVars, pathVars, appVars>>
exceptJobs == <<providerVars, cancelVars, callVars, historyPathVars, pageVars, timerVars>>
exceptPages ==
    <<clockVars, budgetVars, pinVars, pathVars, scriptVars, eventVars, jobsVars, callVars,
      historyPathVars, timerVars>>
exceptTimer ==
    <<clockVars, budgetVars, pinVars, pathVars, scriptVars, eventVars, jobsVars,
      providerVars, cancelVars, callVars, historyPathVars, pageVars>>
exceptViews == <<exceptPages, pageVars>>

-----------------------------------------------------------------------------
(* Bounds of the model *)

\* Clock advances explored in one behaviour.
MaxTicks == 1
\* globalState.update calls that may be in flight on one key at a time.
MaxPending == 1
\* Cache method calls explored in one behaviour.
MaxCalls == 3
\* Versions of the cluster's listing.
MaxVersions == 2
\* getRootItems() calls of one provider that may be in progress at a time.
MaxInFlight == 2
\* Invocations of the cancel command explored in one behaviour.
MaxCommands == 2

\* setInterval calls made in a session
MaxIntervals == 3

-----------------------------------------------------------------------------
(* Strings and optional values *)

NA == <<"N", "/", "A">>
EmptyStr == <<>>

None == <<>>
Some(v) == <<v>>

\* JavaScript truthiness of a string: !s is true exactly for ''.
Falsy(s) == s = EmptyStr

\* a || b for strings
OrElse(a, b) == IF Falsy(a) THEN b ELSE a

\* Job identifiers used as keys: an array task and a job step.
JobIds == { <<"7", "_", "1">>, <<"7", ".", "1">> }
\* The one job of the runs that follow all three caches.
OneJob == { <<"7", "_", "1">> }
\* Every job identifier a cache is called with.
KnownJobIds == JobIds \cup { <<"8">> }

-----------------------------------------------------------------------------
(* Maps (JavaScript Map / Record objects) *)

EmptyMap == [x \in {} |-> 0]

MapSet(m, k, v) == [x \in (DOMAIN m) \cup {k} |-> IF x = k THEN v ELSE m[x]]

MapDelete(m, k) == [x \in (DOMAIN m) \ {k} |-> m[x]]

MapRestrict(m, keep) == [x \in (DOMAIN m) \cap keep |-> m[x]]

-----------------------------------------------------------------------------
(* Time.  Date.now() counts milliseconds; the model's clock counts seconds  *)
(* (30 days of milliseconds do not fit TLC's 32-bit integers), so one day   *)
(* is 24*60*60 clock units instead of 24*60*60*1000.                        *)

DayLen == 24 * 60 * 60

STALE_DAYS == 7
PATH_MAX_AGE_DAYS == 30
SCRIPT_MAX_AGE_DAYS == 30

staleThreshold == STALE_DAYS * DayLen
pathMaxAgeMs == PATH_MAX_AGE_DAYS * DayLen
scriptMaxAgeMs == SCRIPT_MAX_AGE_DAYS * DayLen

\* The clock moves to the edge of the window a cache compares ages with, or
\* one unit past it.
PinClockSteps == {staleThreshold, staleThreshold + 1}
PathClockSteps == {pathMaxAgeMs, pathMaxAgeMs + 1}
ScriptClockSteps == {scriptMaxAgeMs, scriptMaxAgeMs + 1}

Tick(d) ==
    /\ ticks < MaxTicks
    /\ now' = now + d
    /\ ticks' = ticks + 1

-----------------------------------------------------------------------------
(* Events observed by the properties *)

NoCall == [obj |-> "none", op |-> "none", id |-> EmptyStr, arg |-> {}, copied |-> FALSE]
NoRet == [obj |-> "none", op |-> "none", id |-> EmptyStr, status |-> "none", value |-> None]

\* A cache method is entered.
Enter(obj, op, id, arg) ==
    /\ calls < MaxCalls
    /\ calls' = calls + 1
    /\ lastCall' = [obj |-> obj, op |-> op, id |-> id, arg |-> arg, copied |-> FALSE]

Call(obj, op, id, arg) == [obj |-> obj, op |-> op, id |-> id, arg |-> arg, copied |-> FALSE]
Ret(obj, op, id, status, value) ==
    [obj |-> obj, op |-> op, id |-> id, status |-> status, value |-> value]

\* A globalState.update(key, obj) in flight: the object written and the call
\* awaiting it (op "ctor": the constructor's saveCache(), which nothing awaits);
\* value is what the awaiting call returns once the update has resolved.
Write(val, op, id, value) == [val |-> val, op |-> op, id |-> id, value |-> value]

\* What the awaiting method does when the update settles.
RetOfWrite(obj, w, status, value) ==
    IF w.op = "ctor" THEN NoRet ELSE Ret(obj, w.op, w.id, status, value)

ClockStep(steps) ==
    /\ \E d \in steps : Tick(d)
    /\ calls' = calls
    /\ lastCall' = NoCall
    /\ lastRet' = NoRet

-----------------------------------------------------------------------------
(* PinnedJobsCache *)

\* cleanupStaleJobs' test on one entry, with a >= in place of the >.
PinIsStale_Mut(activeJobIds, jobId, timestamp, t) ==
    /\ jobId \notin activeJobIds
    /\ (t - timestamp) >= staleThreshold

\* cleanupStaleJobs' test on one entry.
PinIsStale(activeJobIds, jobId, timestamp, t) ==
    /\ jobId \notin activeJobIds
    /\ (t - timestamp) > staleThreshold

\* The map after cleanupStaleJobs' forEach pass.
PinsAfterCleanup(pins, activeJobIds, t) ==
    MapRestrict(pins, {j \in DOMAIN pins : ~PinIsStale(activeJobIds, j, pins[j], t)})

\* saveCache(): copy the map into an object and call globalState.update.
PinSaveCache(pins, op, id) ==
    pinWrites' = Append(pinWrites, Write(pins, op, id, None))

pin(jobId) ==
    /\ Len(pinWrites) < MaxPending
    /\ pinnedJobs' = MapSet(pinnedJobs, jobId, now)
    /\ PinSaveCache(pinnedJobs', "pin", jobId)
    /\ Enter("pin", "pin", jobId, {})
    /\ lastRet' = NoRet
    /\ UNCHANGED <<clockVars, pinStore, exceptPin>>

unpin(jobId) ==
    /\ Len(pinWrites) < MaxPending
    /\ pinnedJobs' = MapDelete(pinnedJobs, jobId)
    /\ PinSaveCache(pinnedJobs', "unpin", jobId)
    /\ Enter("pin", "unpin", jobId, {})
    /\ lastRet' = NoRet
    /\ UNCHANGED <<clockVars, pinStore, exceptPin>>

pinClear ==
    /\ Len(pinWrites) < MaxPending
    /\ pinnedJobs' = EmptyMap
    /\ PinSaveCache(pinnedJobs', "clear", EmptyStr)
    /\ Enter("pin", "clear", EmptyStr, {})
    /\ lastRet' = NoRet
    /\ UNCHANGED <<clockVars, pinStore, exceptPin>>

cleanupStaleJobs(activeJobIds) ==
    /\ Len(pinWrites) < MaxPending
    /\ pinnedJobs' = PinsAfterCleanup(pinnedJobs, activeJobIds, now)
    /\ Enter("pin", "cleanupStaleJobs", EmptyStr, activeJobIds)
    /\ IF pinnedJobs' # pinnedJobs
         THEN /\ PinSaveCache(pinnedJobs', "cleanupStaleJobs", EmptyStr)
              /\ lastRet' = NoRet
         ELSE /\ pinWrites' = pinWrites
              /\ lastRet' = Ret("pin", "cleanupStaleJobs", EmptyStr, "ok", None)
    /\ UNCHANGED <<clockVars, pinStore, exceptPin>>

\* The oldest update on the key resolves: the store takes the value and the
\* awaiting method returns.
PinWriteDone ==
    /\ pinWrites # <<>>
    /\ pinStore' = Head(pinWrites).val
    /\ pinWrites' = Tail(pinWrites)
    /\ lastRet' = RetOfWrite("pin", Head(pinWrites), "ok", None)
    /\ lastCall' = NoCall
    /\ UNCHANGED <<clockVars, calls, pinnedJobs, exceptPin>>

\* The oldest update on the key rejects: the store keeps its value and the
\* awaiting method rejects with it.
PinWriteFail ==
    /\ pinWrites # <<>>
    /\ pinWrites' = Tail(pinWrites)
    /\ lastRet' = RetOfWrite("pin", Head(pinWrites), "throw", None)
    /\ lastCall' = NoCall
    /\ UNCHANGED <<clockVars, calls, pinnedJobs, pinStore, exceptPin>>

\* new PinnedJobsCache(context) in a new session: updates still in flight in
\* the old session are lost; the constructor only loads the stored object.
PinConstruct ==
    /\ pinnedJobs' = pinStore
    /\ pinWrites' = <<>>
    /\ pinStore' = pinStore

NewPinnedJobsCache ==
    /\ PinConstruct
    /\ lastCall' = Call("pin", "ctor", EmptyStr, {})
    /\ calls' = calls

    /\ lastRet' = Ret("pin", "ctor", EmptyStr, "ok", None)
    /\ UNCHANGED <<clockVars, exceptPin>>

PinTick == ClockStep(PinClockSteps) /\ UNCHANGED exceptClock

-----------------------------------------------------------------------------
(* JobPathCache *)

\* Paths handed to set(): none, the 'N/A' marker, a resolved path.
OutPath == <<"/", "o">>
PathArgs == {EmptyStr, NA, OutPath}

\* !p || p === 'N/A'
Unresolved(p) == Falsy(p) \/ p = NA

\* set()'s guard with the 'N/A' comparisons left out.
BothUnresolved_Mut(stdoutPath, stderrPath) ==
    Falsy(stdoutPath) /\ Falsy(stderrPath)

\* set()'s guard: (!stdoutPath || stdoutPath === 'N/A') && (!stderrPath || ...)
BothUnresolved(stdoutPath, stderrPath) ==
    Unresolved(stdoutPath) /\ Unresolved(stderrPath)

CachedJobPaths(stdoutPath, stderrPath, t) ==
    [stdoutPath |-> OrElse(stdoutPath, NA),
     stderrPath |-> OrElse(stderrPath, NA),
     cachedAt |-> t]

PathSaveCache(cache, op, id) ==
    pathWrites' = Append(pathWrites, Write(cache, op, id, None))

\* cleanupOldEntries' test on one entry.
PathIsOld(entry, t) == t - entry.cachedAt > pathMaxAgeMs

\* cleanupOldEntries deleting nothing.
PathsAfterCleanup_Mut(cache, t) == cache

PathsAfterCleanup(cache, t) ==
    MapRestrict(cache, {j \in DOMAIN cache : ~PathIsOld(cache[j], t)})

\* set(jobId, stdoutPath, stderrPath) up to its await.
pathSet(jobId, stdoutPath, stderrPath) ==
    /\ Enter("path", "set", jobId, <<stdoutPath, stderrPath>>)
    /\ IF BothUnresolved(stdoutPath, stderrPath)
         THEN /\ lastRet' = Ret("path", "set", jobId, "ok", None)
              /\ UNCHANGED pathVars
         ELSE /\ Len(pathWrites) < MaxPending
              /\ pathCache' = MapSet(pathCache, jobId,
                                     CachedJobPaths(stdoutPath, stderrPath, now))
              /\ PathSaveCache(pathCache', "set", jobId)
              /\ lastRet' = NoRet
              /\ pathStore' = pathStore

pathClear ==
    /\ Len(pathWrites) < MaxPending
    /\ pathCache' = EmptyMap
    /\ PathSaveCache(pathCache', "clear", EmptyStr)
    /\ Enter("path", "clear", EmptyStr, {})
    /\ lastRet' = NoRet
    /\ UNCHANGED <<clockVars, pathStore, exceptPath>>

\* The oldest update on the key resolves.
PathUpdateResolved ==
    /\ pathWrites # <<>>
    /\ pathStore' = Head(pathWrites).val
    /\ pathWrites' = Tail(pathWrites)
    /\ lastRet' = RetOfWrite("path", Head(pathWrites), "ok", None)
    /\ lastCall' = NoCall
    /\ UNCHANGED <<calls, pathCache>>

\* The oldest update on the key rejects: set() has no try block around its
\* await, so it rejects too.
PathUpdateRejected ==
    /\ pathWrites # <<>>
    /\ pathWrites' = Tail(pathWrites)
    /\ lastRet' = RetOfWrite("path", Head(pathWrites), "throw", None)
    /\ lastCall' = NoCall
    /\ UNCHANGED <<calls, pathCache, pathStore>>

PathWriteDone == PathUpdateResolved /\ UNCHANGED <<clockVars, exceptPath>>

PathWriteFail == PathUpdateRejected /\ UNCHANGED <<clockVars, exceptPath>>

\* new JobPathCache(context) in a new session: loadCache(), then
\* cleanupOldEntries(), whose saveCache() is called and not awaited.
PathConstruct ==
    /\ pathCache' = PathsAfterCleanup(pathStore, now)
    /\ pathWrites' = IF pathCache' # pathStore
                       THEN <<Write(pathCache', "ctor", EmptyStr, None)>>
                       ELSE <<>>
    /\ pathStore' = pathStore

NewJobPathCache ==
    /\ PathConstruct
    /\ lastCall' = Call("path", "ctor", EmptyStr, {})
    /\ calls' = calls

    /\ lastRet' = Ret("path", "ctor", EmptyStr, "ok", None)
    /\ UNCHANGED <<clockVars, exceptPath>>

PathTick == ClockStep(PathClockSteps) /\ UNCHANGED exceptClock

-----------------------------------------------------------------------------
(* SubmitScriptCache *)

Digits == {"0", "1", "2", "3", "4", "5", "6", "7", "8", "9"}
Letters == {"a", "b", "c", "d", "e", "f", "g", "h", "i", "j", "k", "l", "m",
            "n", "o", "p", "q", "r", "s", "t", "u", "v", "w", "x", "y", "z",
            "A", "B", "C", "D", "E", "F", "G", "H", "I", "J", "K", "L", "M",
            "N", "O", "P", "Q", "R", "S", "T", "U", "V", "W", "X", "Y", "Z"}

\* jobId.replace(/[^a-zA-Z0-9_-]/g, '_')
Sanitize(jobId) ==
    [i \in DOMAIN jobId |->
        IF jobId[i] \in Digits \cup Letters \cup {"_", "-"}
          THEN jobId[i] ELSE "_"]

\* The positions of character c in s.
Positions(s, c) == {i \in DOMAIN s : s[i] = c}

LowerCase == <<"a", "b", "c", "d", "e", "f", "g", "h", "i", "j", "k", "l", "m",
               "n", "o", "p", "q", "r", "s", "t", "u", "v", "w", "x", "y", "z">>
UpperCase == <<"A", "B", "C", "D", "E", "F", "G", "H", "I", "J", "K", "L", "M",
               "N", "O", "P", "Q", "R", "S", "T", "U", "V", "W", "X", "Y", "Z">>

\* The literal pat stands in s at position i.
StartsAt(s, i, pat) ==
    i >= 1 /\ i + Len(pat) - 1 <= Len(s) /\ SubSeq(s, i, i + Len(pat) - 1) = pat

Max(S) == CHOOSE x \in S : \A y \in S : y <= x

\* path.basename: what follows the last '/'.
Basename(p) ==
    IF Positions(p, "/") = {} THEN p
    ELSE SubSeq(p, Max(Positions(p, "/")) + 1, Len(p))

\* path.extname: from the last '.' of the basename, '' when there is none or
\* when the basename starts with its only '.'.
Extname(p) ==
    LET b == Basename(p)
        dots == Positions(b, ".")
    IN  IF dots = {} \/ Max(dots) = 1 THEN EmptyStr
        ELSE SubSeq(b, Max(dots), Len(b))

\* Original submit scripts handed to cacheScript().
ScriptSh == <<"/", "r", ".", "s", "h">>
ScriptNoExt == <<"/", "r">>
ScriptArgs == {NA, ScriptSh, ScriptNoExt}

\* path.join(cacheDir, `${sanitized}_${timestamp}${ext}`).  The timestamp is
\* digits only and the extension starts with '.', so two file names are equal
\* exactly when their three parts are: the path is kept as its parts.
CachedPath(jobId, timestamp, originalScriptPath) ==
    [name |-> Sanitize(jobId),
     timestamp |-> timestamp,
     ext |-> OrElse(Extname(originalScriptPath), <<".", "s", "h">>)]

CachedSubmitScript(originalScriptPath, cachedPath, timestamp) ==
    [originalPath |-> originalScriptPath,
     cachedPath |-> cachedPath,
     cachedAt |-> timestamp]

ScriptSaveCache(cache, op, id, value) ==
    scriptWrites' = Append(scriptWrites, Write(cache, op, id, value))

\* cleanupOldEntries' test on one entry.
ScriptIsOld(entry, t) == t - entry.cachedAt > scriptMaxAgeMs

ScriptsAfterCleanup(cache, t) ==
    MapRestrict(cache, {j \in DOMAIN cache : ~ScriptIsOld(cache[j], t)})

\* The archived files of the entries of cache whose keys are in ids.
ArchivedFiles(cache, ids) == {cache[j].cachedPath : j \in (DOMAIN cache) \cap ids}

\* History of one SubmitScriptCache object: whether clear() has run, and per
\* job id the copies made and the paths cacheScript returned.
NoScriptHist ==
    [cleared |-> FALSE,
     copies |-> [j \in KnownJobIds |-> 0],
     paths |-> [j \in KnownJobIds |-> {}],
     returns |-> [j \in KnownJobIds |-> 0]]

HistReturned(h, jobId, value) ==
    IF value = None THEN h
    ELSE [h EXCEPT !.paths[jobId] = @ \cup {value[1]}, !.returns[jobId] = @ + 1]

HistCopied(h, jobId) == [h EXCEPT !.copies[jobId] = @ + 1]

\* cacheScript returns without touching anything.
ScriptReturnNow(jobId, originalScriptPath, value) ==
    /\ Enter("script", "cacheScript", jobId, {})
    /\ lastRet' = Ret("script", "cacheScript", jobId, "ok", value)
    /\ scriptHist' = HistReturned(scriptHist, jobId, value)
    /\ UNCHANGED <<scriptCache, scriptStore, scriptWrites, files>>

\* cacheScript's first test, always false: every call archives again.
AlreadyCached_Mut(cache, jobId) == FALSE

\* cacheScript's first test, on what globalState holds: an entry counts only
\* once its update has resolved.
AlreadyCached_Persisted(cache, jobId) == jobId \in DOMAIN scriptStore

\* cacheScript's first test: this.cache.has(jobId)
AlreadyCached(cache, jobId) == jobId \in DOMAIN cache

\* cacheScript(jobId, originalScriptPath) up to its await; exists is fs.existsSync's answer for
\* the original and copyOk whether fs.copyFileSync succeeds.
cacheScript(jobId, originalScriptPath, exists, copyOk) ==
    /\ IF AlreadyCached(scriptCache, jobId)
         THEN ScriptReturnNow(jobId, originalScriptPath,
                              Some(scriptCache[jobId].cachedPath))
       ELSE IF Unresolved(originalScriptPath) \/ ~exists \/ ~copyOk
         THEN ScriptReturnNow(jobId, originalScriptPath, None)
       ELSE LET cachedPath == CachedPath(jobId, now, originalScriptPath)
            IN  /\ Len(scriptWrites) < MaxPending
                /\ files' = files \cup {cachedPath}
                /\ scriptCache' = MapSet(scriptCache, jobId,
                       CachedSubmitScript(originalScriptPath, cachedPath, now))
                /\ ScriptSaveCache(scriptCache', "cacheScript", jobId, Some(cachedPath))
                /\ scriptStore' = scriptStore
                /\ scriptHist' = HistCopied(scriptHist, jobId)
                /\ calls < MaxCalls
                /\ calls' = calls + 1
                /\ lastCall' = [Call("script", "cacheScript", jobId, {})
                                  EXCEPT !.copied = TRUE]
                /\ lastRet' = NoRet

\* clear(): unlink every archived file that exists (a failing unlink is caught
\* and leaves the file: those in kept), empty the map, save.
scriptClear(kept) ==
    /\ Len(scriptWrites) < MaxPending
    /\ kept \subseteq ArchivedFiles(scriptCache, DOMAIN scriptCache) \cap files
    /\ files' = (files \ ArchivedFiles(scriptCache, DOMAIN scriptCache)) \cup kept
    /\ scriptCache' = EmptyMap
    /\ ScriptSaveCache(scriptCache', "clear", EmptyStr, None)
    /\ Enter("script", "clear", EmptyStr, {})
    /\ lastRet' = NoRet
    /\ scriptHist' = [scriptHist EXCEPT !.cleared = TRUE]
    /\ UNCHANGED <<clockVars, scriptStore, exceptScript>>

\* cacheScript awaits the update inside its try block: it returns the cached
\* path when the update resolves and undefined when it rejects.
ScriptUpdateResolved ==
    /\ scriptWrites # <<>>
    /\ scriptStore' = Head(scriptWrites).val
    /\ scriptWrites' = Tail(scriptWrites)
    /\ lastRet' = RetOfWrite("script", Head(scriptWrites), "ok", Head(scriptWrites).value)
    /\ scriptHist' = IF Head(scriptWrites).op = "cacheScript"
                       THEN HistReturned(scriptHist, Head(scriptWrites).id,
                                         Head(scriptWrites).value)
                       ELSE scriptHist
    /\ lastCall' = NoCall
    /\ UNCHANGED <<calls, scriptCache, files>>

ScriptUpdateRejected ==
    /\ scriptWrites # <<>>
    /\ scriptWrites' = Tail(scriptWrites)
    /\ lastRet' = RetOfWrite("script", Head(scriptWrites),
                             IF Head(scriptWrites).op = "cacheScript" THEN "ok" ELSE "throw",
                             None)
    /\ lastCall' = NoCall
    /\ UNCHANGED <<calls, scriptCache, scriptStore, files, scriptHist>>

ScriptWriteDone == ScriptUpdateResolved /\ UNCHANGED <<clockVars, exceptScript>>

ScriptWriteFail == ScriptUpdateRejected /\ UNCHANGED <<clockVars, exceptScript>>

\* new SubmitScriptCache(context) in a new session: loadCache(),
\* ensureCacheDir(), then cleanupOldEntries(), which unlinks the archived file
\* of every old entry (a failing unlink leaves the file: those in kept) and
\* whose saveCache() is called and not awaited.
ScriptConstruct(kept) ==
    LET old == {j \in DOMAIN scriptStore : ScriptIsOld(scriptStore[j], now)}
    IN  /\ kept \subseteq ArchivedFiles(scriptStore, old) \cap files
        /\ files' = (files \ ArchivedFiles(scriptStore, old)) \cup kept
        /\ scriptCache' = ScriptsAfterCleanup(scriptStore, now)
        /\ scriptWrites' = IF old # {}
                             THEN <<Write(scriptCache', "ctor", EmptyStr, None)>>
                             ELSE <<>>
        /\ scriptStore' = scriptStore
        /\ scriptHist' = NoScriptHist

NewSubmitScriptCache ==
    /\ \E kept \in SUBSET files : ScriptConstruct(kept)
    /\ lastCall' = Call("script", "ctor", EmptyStr, {})
    /\ calls' = calls

    /\ lastRet' = Ret("script", "ctor", EmptyStr, "ok", None)
    /\ UNCHANGED <<clockVars, exceptScript>>

\* The script cache alone is followed across one clock step, past its maximum age.
ScriptTick == ClockStep({scriptMaxAgeMs + 1}) /\ UNCHANGED exceptClock

-----------------------------------------------------------------------------
(* Text helpers of SlurmService *)

Min(S) == CHOOSE x \in S : \A y \in S : x <= y

\* s.split(c) for a one-character separator
RECURSIVE Split(_, _)
Split(s, c) ==
    IF Positions(s, c) = {} THEN <<s>>
    ELSE LET i == Min(Positions(s, c))
         IN  <<SubSeq(s, 1, i - 1)>> \o Split(SubSeq(s, i + 1, Len(s)), c)

\* parts.join(c)
RECURSIVE Join(_, _)
Join(parts, c) ==
    IF parts = <<>> THEN EmptyStr
    ELSE IF Len(parts) = 1 THEN parts[1]
    ELSE parts[1] \o <<c>> \o Join(Tail(parts), c)

\* s.trim(), the white space being blanks
RECURSIVE Trim(_)
Trim(s) ==
    IF s # <<>> /\ Head(s) = " " THEN Trim(Tail(s))
    ELSE IF s # <<>> /\ s[Len(s)] = " " THEN Trim(SubSeq(s, 1, Len(s) - 1))
    ELSE s

\* What a replacement string r stands for at one match of a pattern without
\* groups: $$ is '$', $& the match, $` the text before it, $' the text after
\* it; every other character stands for itself.
RECURSIVE Substitution(_, _, _, _)
Substitution(r, match, before, after) ==
    IF r = <<>> THEN <<>>
    ELSE IF Len(r) >= 2 /\ r[1] = "$" /\ r[2] \in {"$", "&", "`", "'"}
      THEN (CASE r[2] = "$" -> <<"$">>
              [] r[2] = "&" -> match
              [] r[2] = "`" -> before
              [] r[2] = "'" -> after)
           \o Substitution(SubSeq(r, 3, Len(r)), match, before, after)
    ELSE <<Head(r)>> \o Substitution(Tail(r), match, before, after)

\* s.replace(/pat/g, r) from position i on, for a two-character pattern
RECURSIVE ReplaceFrom(_, _, _, _)
ReplaceFrom(s, i, pat, r) ==
    IF i > Len(s) THEN <<>>
    ELSE IF i < Len(s) /\ SubSeq(s, i, i + 1) = pat
      THEN Substitution(r, pat, SubSeq(s, 1, i - 1), SubSeq(s, i + 2, Len(s)))
           \o ReplaceFrom(s, i + 2, pat, r)
    ELSE <<s[i]>> \o ReplaceFrom(s, i + 1, pat, r)

\* s.replace(/pat/g, r) for a two-character pattern
ReplaceAll(s, pat, r) == ReplaceFrom(s, 1, pat, r)

\* require('os').userInfo().username
Username == <<"u">>
PendingNode == <<"P", "E", "N", "D", "I", "N", "G", "_", "N", "O", "D", "E">>

\* nodes.split(',')[0].split('[')[0]
FirstNode(nodes) == Split(Split(nodes, ",")[1], "[")[1]

\* The value of %a, taking the last part whatever their number.
ArrayIndex_Mut(arrayParts) == arrayParts[Len(arrayParts)]

\* arrayParts.length > 1 ? arrayParts[1] : '0'
ArrayIndex(arrayParts) == IF Len(arrayParts) > 1 THEN arrayParts[2] ELSE <<"0">>

expandPathPlaceholders(path, jobId, jobName, nodes) ==
    IF Unresolved(path) THEN path
    ELSE LET e1 == ReplaceAll(path, <<"%", "j">>, jobId)
             e2 == ReplaceAll(e1, <<"%", "x">>, jobName)
             e3 == ReplaceAll(e2, <<"%", "u">>, Username)
             e4 == IF ~Unresolved(nodes)
                     THEN ReplaceAll(e3, <<"%", "N">>, FirstNode(nodes))
                     ELSE ReplaceAll(e3, <<"%", "N">>, PendingNode)
             arrayParts == Split(jobId, "_")
             e5 == ReplaceAll(e4, <<"%", "A">>, arrayParts[1])
             e6 == ReplaceAll(e5, <<"%", "a">>, ArrayIndex(arrayParts))
             e7 == ReplaceAll(e6, <<"%", "t">>, <<"0">>)
         IN  ReplaceAll(e7, <<"%", "%">>, <<"%">>)

-----------------------------------------------------------------------------
(* SlurmService.getJobs *)

\* How a call completed.
NoResult == [status |-> "none", value |-> <<>>]
Returned(v) == [status |-> "returned", value |-> v]
Threw == [status |-> "threw", value |-> <<>>]

\* The jobs squeue lists: an array task that runs and a job that waits.
JobA == <<"7", "_", "1">>
JobB == <<"8">>

\* Lines of squeue's output (%i|%j|%t|%M|%P|%N|%l|%S), a line that is not a
\* job and a blank line.
LineA == Join(<< JobA, <<"a">>, <<"R">>, <<"1">>, <<"p">>, <<"n", "1", "[", "2", "]">>,
                 <<"9">>, <<"0">> >>, "|")
LineB == Join(<< <<" ", "8">>, <<"b">>, <<"P", "D">>, <<"0">>, <<"p">>, EmptyStr,
                 <<"9">>, EmptyStr >>, "|")
LineShort == Join(<< <<"x">>, <<"y">> >>, "|")
LineBlank == <<" ">>

\* What `squeue` answers: a failure, or its output split into lines.
SqueueOutcomes ==
    { [ok |-> FALSE, lines |-> <<>>],
      [ok |-> TRUE, lines |-> <<LineBlank>>],
      [ok |-> TRUE, lines |-> <<LineA>>],
      [ok |-> TRUE, lines |-> <<LineA, LineShort, LineB>>] }

\* The SlurmJob built from the parts of one line.
SqueueJob(parts) ==
    [jobId |-> Trim(parts[1]),
     name |-> Trim(parts[2]),
     state |-> Trim(parts[3]),
     time |-> Trim(parts[4]),
     partition |-> Trim(parts[5]),
     nodes |-> OrElse(Trim(parts[6]), NA),
     timeLimit |-> OrElse(Trim(parts[7]), NA),
     startTime |-> OrElse(Trim(parts[8]), NA),
     stdoutPath |-> NA,
     stderrPath |-> NA,
     submitScript |-> NA,
     workDir |-> NA,
     gpuCount |-> None,
     gpuType |-> None,
     memory |-> None,
     cachedSubmitScript |-> None,
     gpuName |-> None,
     gpuMemory |-> None]

\* getJobs' loop over the lines.
ParseSqueue(lines) ==
    LET kept == SelectSeq(lines, LAMBDA l : Trim(l) # EmptyStr /\ Len(Split(l, "|")) >= 8)
    IN  [i \in DOMAIN kept |-> SqueueJob(Split(kept[i], "|"))]

\* What `scontrol show job` answers: a failure, or the fields its output
\* matches (StdOut=, StdErr=, Command=, WorkDir=) and the GPU count, GPU type
\* and memory read from it.
ScontrolFailure ==
    [ok |-> FALSE, StdOut |-> None, StdErr |-> None, Command |-> None, WorkDir |-> None,
     gpuCount |-> None, gpuType |-> None, memory |-> None]
ScontrolFull ==
    [ok |-> TRUE, StdOut |-> Some(<<"/", "o", "%", "a">>), StdErr |-> None,
     Command |-> Some(ScriptSh), WorkDir |-> Some(<<"/", "w">>),
     gpuCount |-> Some(2), gpuType |-> Some(<<"h">>), memory |-> Some(<<"4", "G">>)]
ScontrolBare ==
    [ok |-> TRUE, StdOut |-> None, StdErr |-> None, Command |-> None, WorkDir |-> None,
     gpuCount |-> None, gpuType |-> None, memory |-> None]
ScontrolOutcomes == {ScontrolFailure, ScontrolFull, ScontrolBare}

\* match?.[1] || 'N/A'
MatchOr(m, d) == IF m = None THEN d ELSE OrElse(m[1], d)

\* getJobDetails(jobId): the parsed fields, or the 'N/A' defaults of its catch.
getJobDetails(out) ==
    IF out.ok
      THEN [stdoutPath |-> MatchOr(out.StdOut, NA),
            stderrPath |-> MatchOr(out.StdErr, NA),
            submitScript |-> MatchOr(out.Command, NA),
            workDir |-> MatchOr(out.WorkDir, NA),
            gpuCount |-> out.gpuCount,
            gpuType |-> out.gpuType,
            memory |-> out.memory]
      ELSE [stdoutPath |-> NA,
            stderrPath |-> NA,
            submitScript |-> NA,
            workDir |-> NA,
            gpuCount |-> None,
            gpuType |-> None,
            memory |-> None]

\* The job after the callback has copied the details into it.
Enriched(job, details) ==
    [job EXCEPT
        !.stdoutPath = expandPathPlaceholders(details.stdoutPath, job.jobId, job.name, job.nodes),
        !.stderrPath = expandPathPlaceholders(details.stderrPath, job.jobId, job.name, job.nodes),
        !.submitScript = details.submitScript,
        !.workDir = details.workDir,
        !.gpuCount = details.gpuCount,
        !.gpuType = details.gpuType,
        !.memory = details.memory]

\* What nvidia-smi answers: a failure, or the first lines of its two outputs.
GpuOutcomes ==
    { [ok |-> FALSE, name |-> EmptyStr, memory |-> EmptyStr],
      [ok |-> TRUE, name |-> <<"H">>, memory |-> EmptyStr] }

\* getGpuInfo(): null in its catch.
getGpuInfo(out) ==
    IF out.ok
      THEN Some([gpuName |-> OrElse(out.name, <<"U", "n", "k", "n", "o", "w", "n">>),
                 gpuMemory |-> OrElse(out.memory, <<"U", "n", "k", "n", "o", "w", "n">>)])
      ELSE None

\* The loop's test on one job: job.state === 'R'
IsRunning(job) == job.state = <<"R">>

\* The loop's test on the first job only.
GpuInfoApplies_Mut(js, i) == i = 1

\* The jobs the loop gives the GPU info to.
GpuInfoApplies(js, i) == IsRunning(js[i])

\* getJobs' loop that applies the GPU info to the running jobs.
ApplyGpuInfo(js, gpuInfo) ==
    IF gpuInfo = None THEN js
    ELSE [i \in DOMAIN js |->
            IF GpuInfoApplies(js, i)
              THEN [js[i] EXCEPT !.gpuName = Some(gpuInfo[1].gpuName),
                                 !.gpuMemory = Some(gpuInfo[1].gpuMemory)]
              ELSE js[i]]

\* getJobs' catch block, throwing the error on.
GetJobsCatch_Mut == Threw

\* getJobs' catch block.
GetJobsCatch == Returned(<<>>)

NoFetchLog == [squeue |-> "none", parsed |-> <<>>, scontrol |-> <<>>, rejected |-> {}]

\* this.scriptCache && job.submitScript && job.submitScript !== 'N/A'
HasSubmitScript(job) == ~Unresolved(job.submitScript)

\* Where a callback goes once pathCache.set has returned.
AfterSet(job) == IF HasSubmitScript(job) THEN "script" ELSE "done"

\* Callback i awaits the call that issued update w.
Awaits(i, pc, w, op) == cbPc[i] = pc /\ w.op = op /\ w.id = jobs[i].jobId

\* No callback of an earlier call is still running.
CallbacksSettled == \A i \in DOMAIN cbPc : cbPc[i] \in {"done", "rejected"}

\* getJobs() is called and squeue answers: the catch block returns [] when
\* squeue failed, otherwise the lines are parsed and one callback per job
\* starts.
getJobs(out) ==
    /\ fetchPc \in {"idle", "caught"}
    /\ CallbacksSettled
    /\ IF out.ok
         THEN /\ jobs' = ParseSqueue(out.lines)
              /\ cbPc' = [i \in DOMAIN jobs' |-> "details"]
              /\ fetchPc' = "details"
              /\ getJobsRet' = NoResult
              /\ fetchLog' = [squeue |-> "ok", parsed |-> jobs',
                              scontrol |-> [i \in DOMAIN jobs' |-> None],
                              rejected |-> {}]
         ELSE /\ jobs' = <<>>
              /\ cbPc' = <<>>
              /\ fetchPc' = "idle"
              /\ getJobsRet' = GetJobsCatch
              /\ fetchLog' = [NoFetchLog EXCEPT !.squeue = "fail"]
    /\ lastCall' = NoCall
    /\ lastRet' = NoRet
    /\ UNCHANGED <<clockVars, exceptJobs, calls, pinVars, pathVars, scriptVars, historyRet>>

\* scontrol answers for job i: the callback copies the details into the job
\* and calls pathCache.set.
JobDetails(i, out) ==
    /\ fetchPc \in {"details", "caught"}
    /\ cbPc[i] = "details"
    /\ LET job == Enriched(jobs[i], getJobDetails(out))
       IN  /\ jobs' = [jobs EXCEPT ![i] = job]
           /\ pathSet(job.jobId, job.stdoutPath, job.stderrPath)
           /\ cbPc' = [cbPc EXCEPT ![i] = IF lastRet'.op = "set"
                                            THEN AfterSet(job) ELSE "awaitSet"]
    /\ fetchLog' = [fetchLog EXCEPT !.scontrol[i] = Some(out)]
    /\ UNCHANGED <<clockVars, exceptJobs, pinVars, scriptVars, fetchPc, getJobsRet, historyRet>>

\* The callback of job i calls scriptCache.cacheScript.
JobCacheScript(i, exists, copyOk) ==
    /\ fetchPc \in {"details", "caught"}
    /\ cbPc[i] = "script"
    /\ cacheScript(jobs[i].jobId, jobs[i].submitScript, exists, copyOk)
    /\ IF lastRet'.op = "cacheScript"
         THEN /\ jobs' = [jobs EXCEPT ![i].cachedSubmitScript = lastRet'.value]
              /\ cbPc' = [cbPc EXCEPT ![i] = "done"]
         ELSE /\ jobs' = jobs
              /\ cbPc' = [cbPc EXCEPT ![i] = "awaitScript"]
    /\ UNCHANGED <<clockVars, exceptJobs, pinVars, pathVars, fetchPc, fetchLog, getJobsRet,
                   historyRet>>

\* The update pathCache.set awaits resolves: the callback goes on.
JobSetResolved ==
    /\ PathUpdateResolved
    /\ cbPc' = [i \in DOMAIN cbPc |->
                  IF Awaits(i, "awaitSet", Head(pathWrites), "set")
                    THEN AfterSet(jobs[i]) ELSE cbPc[i]]
    /\ UNCHANGED <<clockVars, exceptJobs, pinVars, scriptVars, fetchPc, jobs, fetchLog,
                   getJobsRet, historyRet>>

\* The update pathCache.set awaits rejects: set rejects, so does the callback
\* and with it Promise.all, and getJobs' catch block runs.
JobSetRejected ==
    /\ PathUpdateRejected
    /\ cbPc' = [i \in DOMAIN cbPc |->
                  IF Awaits(i, "awaitSet", Head(pathWrites), "set")
                    THEN "rejected" ELSE cbPc[i]]
    /\ fetchLog' = [fetchLog EXCEPT !.rejected = @ \cup {"path"}]
    /\ IF fetchPc = "details" /\ cbPc' # cbPc
         THEN /\ fetchPc' = "caught"
              /\ getJobsRet' = GetJobsCatch
         ELSE UNCHANGED <<fetchPc, getJobsRet>>
    /\ UNCHANGED <<clockVars, exceptJobs, pinVars, scriptVars, jobs, historyRet>>

\* The update cacheScript awaits resolves: it returns the cached path.
JobScriptResolved ==
    /\ ScriptUpdateResolved
    /\ jobs' = [i \in DOMAIN jobs |->
                  IF Awaits(i, "awaitScript", Head(scriptWrites), "cacheScript")
                    THEN [jobs[i] EXCEPT !.cachedSubmitScript = Head(scriptWrites).value]
                    ELSE jobs[i]]
    /\ cbPc' = [i \in DOMAIN cbPc |->
                  IF Awaits(i, "awaitScript", Head(scriptWrites), "cacheScript")
                    THEN "done" ELSE cbPc[i]]
    /\ UNCHANGED <<clockVars, exceptJobs, pinVars, pathVars, fetchPc, fetchLog, getJobsRet,
                   historyRet>>

\* The update cacheScript awaits rejects: its catch block returns undefined.
JobScriptRejected ==
    /\ ScriptUpdateRejected
    /\ cbPc' = [i \in DOMAIN cbPc |->
                  IF Awaits(i, "awaitScript", Head(scriptWrites), "cacheScript")
                    THEN "done" ELSE cbPc[i]]
    /\ fetchLog' = [fetchLog EXCEPT !.rejected = @ \cup {"script"}]
    /\ UNCHANGED <<clockVars, exceptJobs, pinVars, pathVars, fetchPc, jobs, getJobsRet, historyRet>>

\* Promise.all has resolved: nvidia-smi answers and getJobs returns the jobs.
GetJobsReturn(gpu) ==
    /\ fetchPc = "details"
    /\ \A i \in DOMAIN cbPc : cbPc[i] = "done"
    /\ jobs' = ApplyGpuInfo(jobs, getGpuInfo(gpu))
    /\ getJobsRet' = Returned(jobs')
    /\ fetchPc' = "idle"
    /\ lastCall' = NoCall
    /\ lastRet' = NoRet
    /\ UNCHANGED <<clockVars, exceptJobs, calls, pinVars, pathVars, scriptVars, cbPc, fetchLog,
                   historyRet>>

-----------------------------------------------------------------------------
(* SlurmService.getJobHistory *)

\* Lines of sacct's output
\* (JobID|JobName|State|ExitCode|Start|End|Elapsed|Partition|NodeList|AllocCPUS|MaxRSS):
\* two finished jobs, the earlier listed first, a job step, a running job, and
\* a finished job without an end time.
Completed == <<"C", "O", "M", "P", "L", "E", "T", "E", "D">>
Running == <<"R", "U", "N", "N", "I", "N", "G">>
Pending == <<"P", "E", "N", "D", "I", "N", "G">>

SacctLine(jobId, state, exit, end) ==
    Join(<< jobId, <<"a">>, state, exit, <<"0">>, end, <<"1">>, <<"p">>, <<"n">>,
            <<"2">> >>, "|")

LineDone1 == SacctLine(<<"5">>, Completed, <<"0", ":", "0">>, <<"1">>)
LineDone2 == SacctLine(<<"6">>, <<"F", "A", "I", "L", "E", "D">>, <<"2", ":", "0">>, <<"2">>)
LineStep == SacctLine(<<"5", ".", "0">>, Completed, <<"0", ":", "0">>, <<"1">>)
LineRunning == SacctLine(JobB, Running, <<"0", ":", "0">>, <<"U">>)
LineNoEnd == SacctLine(<<"4">>, Completed, <<"x">>, EmptyStr)

SacctOutcomes ==
    { [ok |-> FALSE, lines |-> <<>>],
      [ok |-> TRUE, lines |-> <<LineBlank>>],
      [ok |-> TRUE, lines |-> <<LineDone1, LineStep, LineRunning, LineDone2>>],
      [ok |-> TRUE, lines |-> <<LineNoEnd, LineShort, LineDone1>>] }

DigitValue(c) ==
    CASE c = "0" -> 0 [] c = "1" -> 1 [] c = "2" -> 2 [] c = "3" -> 3 [] c = "4" -> 4
      [] c = "5" -> 5 [] c = "6" -> 6 [] c = "7" -> 7 [] c = "8" -> 8 [] c = "9" -> 9

\* The value of the digits s starts with, after acc; None when there is none.
RECURSIVE LeadingDigits(_, _)
LeadingDigits(s, acc) ==
    IF s = <<>> \/ Head(s) \notin Digits THEN acc
    ELSE LeadingDigits(Tail(s),
                       Some(10 * (IF acc = None THEN 0 ELSE acc[1]) + DigitValue(Head(s))))

\* parseInt(s, 10) || 0 for an unsigned s
ParseIntOr0(s) == LET v == LeadingDigits(s, None) IN IF v = None THEN 0 ELSE v[1]

\* new Date(s).getTime(): the model writes a time as the digits of its
\* value; any other text is no date and gives NaN, here None.
GetTime(s) ==
    IF s # EmptyStr /\ \A i \in DOMAIN s : s[i] \in Digits
      THEN Some(ParseIntOr0(s)) ELSE None

\* parts[i]?.trim() || 'N/A'
PartOr(parts, i, d) == IF i <= Len(parts) THEN OrElse(Trim(parts[i]), d) ELSE d

HistoryJob(parts) ==
    [jobId |-> Trim(parts[1]),
     name |-> OrElse(Trim(parts[2]), NA),
     state |-> Trim(parts[3]),
     exitCode |-> ParseIntOr0(Split(Trim(parts[4]), ":")[1]),
     startTime |-> OrElse(Trim(parts[5]), NA),
     endTime |-> OrElse(Trim(parts[6]), NA),
     elapsed |-> OrElse(Trim(parts[7]), NA),
     partition |-> OrElse(Trim(parts[8]), NA),
     nodes |-> OrElse(Trim(parts[9]), NA),
     cpus |-> PartOr(parts, 10, NA),
     maxMemory |-> PartOr(parts, 11, NA),
     stdoutPath |-> NA,
     stderrPath |-> NA]

\* The test on one line, job steps let through.
HistoryLineKept_Mut(l) ==
    /\ Trim(l) # EmptyStr
    /\ Len(Split(l, "|")) >= 9
    /\ Trim(Split(l, "|")[3]) \notin {Running, Pending}

\* getJobHistory's test on one line: at least 9 parts, not a job step, not
\* running or pending.
HistoryLineKept(l) ==
    /\ Trim(l) # EmptyStr
    /\ Len(Split(l, "|")) >= 9
    /\ Positions(Trim(Split(l, "|")[1]), ".") = {}
    /\ Trim(Split(l, "|")[3]) \notin {Running, Pending}

ParseSacct(lines) ==
    LET kept == SelectSeq(lines, HistoryLineKept)
    IN  [i \in DOMAIN kept |-> HistoryJob(Split(kept[i], "|"))]

\* The comparator getJobHistory sorts with; None is NaN.
CompareEnd(a, b) ==
    IF a.endTime = NA THEN Some(1)
    ELSE IF b.endTime = NA THEN Some(0 - 1)
    ELSE IF GetTime(a.endTime) = None \/ GetTime(b.endTime) = None THEN None
    ELSE Some(GetTime(b.endTime)[1] - GetTime(a.endTime)[1])

\* What Array.prototype.sort makes of the comparator's result: NaN is +0.
SortCompare(a, b) == IF CompareEnd(a, b) = None THEN 0 ELSE CompareEnd(a, b)[1]

\* A stable sort with that comparator, by insertion.
RECURSIVE InsertByEnd(_, _)
InsertByEnd(sorted, x) ==
    IF sorted = <<>> THEN <<x>>
    ELSE IF SortCompare(Head(sorted), x) > 0 THEN <<x>> \o sorted
    ELSE <<Head(sorted)>> \o InsertByEnd(Tail(sorted), x)

RECURSIVE SortByEnd(_)
SortByEnd(js) ==
    IF js = <<>> THEN <<>>
    ELSE InsertByEnd(SortByEnd(SubSeq(js, 1, Len(js) - 1)), js[Len(js)])

\* The comparator orders the elements of js consistently: comparing two
\* elements either way agrees, and so do chains of comparisons.
ConsistentOn(js) ==
    LET c(i, k) == SortCompare(js[i], js[k])
        D == DOMAIN js
    IN  /\ \A i, k \in D : i # k =>
              /\ c(i, k) < 0 <=> c(k, i) > 0
              /\ c(i, k) = 0 <=> c(k, i) = 0
        /\ \A i, j, k \in D : (i # j /\ j # k /\ i # k) =>
              /\ (c(i, j) <= 0 /\ c(j, k) <= 0) => c(i, k) <= 0
              /\ (c(i, j) < 0 /\ c(j, k) <= 0) => c(i, k) < 0
              /\ (c(i, j) <= 0 /\ c(j, k) < 0) => c(i, k) < 0

\* jobs.sort(comparator): the stable sort where the comparator is consistent;
\* the order is the implementation's otherwise, and the model takes every
\* order.
SortOutcomes(js) ==
    IF ConsistentOn(js) THEN {SortByEnd(js)}
    ELSE {[i \in DOMAIN js |-> js[p[i]]] :
             p \in {q \in [DOMAIN js -> DOMAIN js] : \A i, k \in DOMAIN js : q[i] = q[k] => i = k}}

\* getJobHistory's catch block.
GetJobHistoryCatch == Returned(<<>>)

NoHistoryRet == [sacct |-> "none", result |-> NoResult]

\* getJobHistory(days): sacct answers; the catch block returns [] when it
\* failed, otherwise the lines are parsed and sorted by end time.
getJobHistory(out) ==
    /\ IF out.ok
         THEN \E sorted \in SortOutcomes(ParseSacct(out.lines)) :
                  historyRet' = [sacct |-> "ok", result |-> Returned(sorted)]
         ELSE historyRet' = [sacct |-> "fail", result |-> GetJobHistoryCatch]
    /\ lastCall' = NoCall
    /\ lastRet' = NoRet
    /\ UNCHANGED <<clockVars, exceptJobs, calls, pinVars, pathVars, scriptVars,
                   fetchPc, jobs, cbPc, fetchLog, getJobsRet>>

-----------------------------------------------------------------------------
(* SlurmJobProvider and JobHistoryProvider *)

Providers == {"jobs", "history"}

\* The records a list command prints at version v of the cluster: an array
\* task and a plain job.
Listing(v) ==
    << [jobId |-> JobA, name |-> <<"a">>, version |-> v],
       [jobId |-> JobB, name |-> <<"b">>, version |-> v] >>

\* What a fetch started now returns: the listing the command prints now.
FetchResults == {Listing(cluster)}

RemoveAt(s, k) == SubSeq(s, 1, k - 1) \o SubSeq(s, k + 1, Len(s))

\* A getRootItems() call in progress: where it stands and what its fetch
\* returns; history: after, the call began after a refresh() and none came
\* since; old, its fetch was started before the latest refresh().
RootCall(pc, result, after) == [pc |-> pc, result |-> result, after |-> after, old |-> FALSE]

\* History of a provider: a refresh() was called; the cached records come
\* from a fetch started before the latest refresh(); the call that rendered
\* records last.
NoViewLog == [refreshed |-> FALSE, heldOld |-> FALSE, rendered |-> None]

\* A call renders the cached records.
Rendered(log, after) == [log EXCEPT !.rendered = Some([after |-> after, old |-> log.heldOld])]

\* The calls in progress once refresh() has been called: none began after
\* it, and the fetches in flight were started before it.
Overtaken(rcs) ==
    [i \in DOMAIN rcs |-> [rcs[i] EXCEPT !.after = FALSE, !.old = rcs[i].pc = "fetch"]]

Refreshed == [NoViewLog EXCEPT !.refreshed = TRUE]

\* refresh(): empty the cached records and fire onDidChangeTreeData.
refresh(p) ==
    /\ cachedJobs' = [cachedJobs EXCEPT ![p] = <<>>]
    /\ cachedSlurmAvailable' = IF p = "history" THEN None ELSE cachedSlurmAvailable
    /\ fired' = [fired EXCEPT ![p] = TRUE]
    /\ rootCalls' = [rootCalls EXCEPT ![p] = Overtaken(@)]
    /\ viewLog' = [viewLog EXCEPT ![p] = Refreshed]

Refresh(p) ==
    /\ refresh(p)
    /\ UNCHANGED <<cluster, lastStarted, cancelVars, exceptViews>>

\* The call enters `await getJobs()` / `await getJobHistory()`.
StartFetch(p, calls0, result, after) ==
    /\ rootCalls' = [rootCalls EXCEPT ![p] = Append(calls0, RootCall("fetch", result, after))]
    /\ lastStarted' = [lastStarted EXCEPT ![p] = Some(result)]

\* The view asks SlurmJobProvider for its root: getRootItems() awaits
\* isAvailable().
JobsGetRootItems ==
    /\ fired["jobs"]
    /\ Len(rootCalls["jobs"]) < MaxInFlight
    /\ fired' = [fired EXCEPT !["jobs"] = FALSE]
    /\ rootCalls' = [rootCalls EXCEPT !["jobs"] =
                        Append(@, RootCall("avail", <<>>, viewLog["jobs"].refreshed))]
    /\ UNCHANGED <<cluster, cachedJobs, cachedSlurmAvailable, lastStarted, viewLog, cancelVars,
                   exceptViews>>

\* isAvailable() answers: the call returns a message, or fetches when no
\* record is cached, or goes on with the cached records.
JobsAvailable(k, ok, result) ==
    /\ k \in DOMAIN rootCalls["jobs"]
    /\ rootCalls["jobs"][k].pc = "avail"
    /\ IF ok /\ cachedJobs["jobs"] = <<>>
         THEN /\ StartFetch("jobs", RemoveAt(rootCalls["jobs"], k), result,
                             rootCalls["jobs"][k].after)
              /\ viewLog' = viewLog
         ELSE /\ rootCalls' = [rootCalls EXCEPT !["jobs"] = RemoveAt(@, k)]
              /\ lastStarted' = lastStarted
              /\ viewLog' = IF ok
                              THEN [viewLog EXCEPT !["jobs"] =
                                       Rendered(@, rootCalls["jobs"][k].after)]
                              ELSE viewLog
    /\ UNCHANGED <<cluster, cachedJobs, cachedSlurmAvailable, fired, cancelVars,
                   exceptViews>>

\* JobHistoryProvider.itemsPerPage
itemsPerPage == 20

\* String.prototype.toLowerCase
ToLowerCase(s) ==
    [i \in DOMAIN s |->
        IF \E k \in DOMAIN UpperCase : UpperCase[k] = s[i]
          THEN LowerCase[CHOOSE k \in DOMAIN UpperCase : UpperCase[k] = s[i]]
          ELSE s[i]]

\* String.prototype.includes
Includes(s, sub) == \E i \in 1..(Len(s) + 1) : StartsAt(s, i, sub)

\* Math.ceil(a / b) of a count a
CeilDiv(a, b) == (a + b - 1) \div b

\* The cached records the search filter keeps.
FilteredJobs(cached) ==
    LET Kept(job) ==
            \/ Includes(ToLowerCase(job.name), ToLowerCase(searchFilter))
            \/ Includes(job.jobId, searchFilter)
    IN IF searchFilter # <<>> THEN SelectSeq(cached, Kept) ELSE cached

\* Array.prototype.slice(start, end) for 0 <= start and end <= length
Slice(s, start, end) == SubSeq(s, start + 1, end)

\* A rendered page: the page index, the number of records the filter kept and
\* the number of job items on the page.
Page(filteredJobs, pageJobs) ==
    [currentPage |-> currentPage, filteredJobs |-> Len(filteredJobs),
     pageJobs |-> Len(pageJobs)]

\* What getRootItems does with the cached records: a message item when there
\* is none or the filter keeps none, and the page at currentPage otherwise.
Paginate(cached) ==
    LET filteredJobs == FilteredJobs(cached)
        startIndex == currentPage * itemsPerPage
        endIndex == Min({startIndex + itemsPerPage, Len(filteredJobs)})
        pageJobs == Slice(filteredJobs, startIndex, endIndex)
    IN  /\ totalFilteredJobs' = IF filteredJobs = <<>> THEN totalFilteredJobs
                                 ELSE Len(filteredJobs)
        /\ pageLog' = IF filteredJobs = <<>> THEN None
                       ELSE Some(Page(filteredJobs, pageJobs))
        /\ UNCHANGED <<historyDays, searchFilter, currentPage>>

\* The view asks JobHistoryProvider for its root: with records cached
\* getRootItems() awaits nothing; without, it awaits isAvailable() when the
\* answer is not cached, returns a message when the answer was no, and
\* fetches otherwise.
HistoryGetRootItems(result) ==
    /\ fired["history"]
    /\ Len(rootCalls["history"]) < MaxInFlight
    /\ fired' = [fired EXCEPT !["history"] = FALSE]
    /\ IF cachedJobs["history"] # <<>>
         THEN /\ viewLog' = [viewLog EXCEPT !["history"] = Rendered(@, @.refreshed)]
              /\ Paginate(cachedJobs["history"])
              /\ UNCHANGED <<rootCalls, lastStarted>>
       ELSE IF cachedSlurmAvailable = None
         THEN /\ rootCalls' = [rootCalls EXCEPT !["history"] =
                                  Append(@, RootCall("avail", <<>>, viewLog["history"].refreshed))]
              /\ UNCHANGED <<lastStarted, viewLog, pageVars>>
       ELSE IF ~cachedSlurmAvailable[1]
         THEN UNCHANGED <<rootCalls, lastStarted, viewLog, pageVars>>
       ELSE /\ StartFetch("history", rootCalls["history"], result, viewLog["history"].refreshed)
            /\ UNCHANGED <<viewLog, pageVars>>
    /\ UNCHANGED <<cluster, cachedJobs, cachedSlurmAvailable, cancelVars, exceptPages>>

\* isAvailable() answers: the answer is cached, and the call fetches when it
\* was yes.
HistoryAvailable(k, ok, result) ==
    /\ k \in DOMAIN rootCalls["history"]
    /\ rootCalls["history"][k].pc = "avail"
    /\ cachedSlurmAvailable' = Some(ok)
    /\ IF ok
         THEN StartFetch("history", RemoveAt(rootCalls["history"], k), result,
                         rootCalls["history"][k].after)
         ELSE /\ rootCalls' = [rootCalls EXCEPT !["history"] = RemoveAt(@, k)]
              /\ lastStarted' = lastStarted
    /\ UNCHANGED <<cluster, cachedJobs, fired, viewLog, cancelVars, exceptViews>>

\* The fetch of call k resolves: this.cachedJobs = <its result>, and the
\* call renders the cached records.
Fetched(p, k) ==
    /\ k \in DOMAIN rootCalls[p]
    /\ rootCalls[p][k].pc = "fetch"
    /\ cachedJobs' = [cachedJobs EXCEPT ![p] = rootCalls[p][k].result]
    /\ rootCalls' = [rootCalls EXCEPT ![p] = RemoveAt(@, k)]
    /\ viewLog' = [viewLog EXCEPT ![p] =
                      Rendered([@ EXCEPT !.heldOld = rootCalls[p][k].old],
                               rootCalls[p][k].after)]
    /\ IF p = "history" THEN Paginate(rootCalls[p][k].result) ELSE UNCHANGED pageVars
    /\ UNCHANGED <<cluster, cachedSlurmAvailable, fired, lastStarted, cancelVars,
                   exceptPages>>

\* setHistoryDays(days)
setHistoryDays(days) ==
    /\ historyDays' = days
    /\ refresh("history")
    /\ UNCHANGED <<searchFilter, currentPage, totalFilteredJobs, pageLog>>
    /\ UNCHANGED <<cluster, lastStarted, cancelVars, exceptPages>>

\* What the page commands leave alone.
exceptPaging ==
    <<cluster, cachedJobs, cachedSlurmAvailable, rootCalls, lastStarted, viewLog,
      historyDays, totalFilteredJobs, pageLog, cancelVars, exceptPages>>

\* setSearchFilter(filter); clearSearchFilter() is setSearchFilter('').
setSearchFilter(filter) ==
    /\ searchFilter' = filter
    /\ currentPage' = 0
    /\ fired' = [fired EXCEPT !["history"] = TRUE]
    /\ UNCHANGED exceptPaging

clearSearchFilter ==
    /\ searchFilter' = <<>>
    /\ currentPage' = 0
    /\ fired' = [fired EXCEPT !["history"] = TRUE]
    /\ UNCHANGED exceptPaging

nextPage ==
    LET maxPage == Max({0, CeilDiv(totalFilteredJobs, itemsPerPage) - 1})
    IN  /\ IF currentPage < maxPage
             THEN /\ currentPage' = currentPage + 1
                  /\ fired' = [fired EXCEPT !["history"] = TRUE]
             ELSE UNCHANGED <<currentPage, fired>>
        /\ UNCHANGED <<searchFilter, exceptPaging>>

previousPage ==
    /\ IF currentPage > 0
         THEN /\ currentPage' = currentPage - 1
              /\ fired' = [fired EXCEPT !["history"] = TRUE]
         ELSE UNCHANGED <<currentPage, fired>>
    /\ UNCHANGED <<searchFilter, exceptPaging>>

\* Jobs start, advance and end on the cluster.
ClusterChange ==
    /\ cluster < MaxVersions
    /\ cluster' = cluster + 1
    /\ UNCHANGED <<cachedJobs, cachedSlurmAvailable, fired, rootCalls, lastStarted, viewLog,
                   cancelVars, exceptViews>>

-----------------------------------------------------------------------------
(* The slurmJobs.cancelJob command *)

NoCommand ==
    [pc |-> "idle", jobId |-> EmptyStr, confirmCancel |-> FALSE,
     jobIdToCancel |-> EmptyStr, confirmation |-> None, dismissed |-> FALSE,
     scancelled |-> FALSE, refreshed |-> FALSE, message |-> "none"]

\* The tree items the command can be invoked on, and no item.
Items == {None} \cup {Some(cachedJobs["jobs"][i].jobId) : i \in DOMAIN cachedJobs["jobs"]}

\* Texts typed into the input box.
InputTexts == { <<"7", "_", "3">>, <<"7", "_">>, <<"7", "_", "x">>, <<"8", "_", "3">> }

StartsWith(s, prefix) == Len(s) >= Len(prefix) /\ SubSeq(s, 1, Len(prefix)) = prefix

\* validateInput: null (here TRUE) when the value is accepted.
ValidateInput(value, baseJobId) ==
    LET index == SubSeq(value, Len(baseJobId) + 2, Len(value))
    IN  /\ StartsWith(value, baseJobId \o <<"_">>)
        /\ index # EmptyStr
        /\ \A i \in DOMAIN index : index[i] \in Digits

\* The test on the answer of the modal dialog, taking every answer.
Confirmed_Mut(confirmation) == TRUE

\* The test on the answer of the modal dialog: confirmation === 'Cancel Job'
Confirmed(confirmation) == confirmation = Some("Cancel Job")

\* await slurmService.cancelJob(jobIdToCancel)
CallScancel(c) ==
    /\ cmd' = [c EXCEPT !.pc = "scancel", !.scancelled = TRUE]
    /\ scancelCalls' = Append(scancelCalls, c.jobIdToCancel)

\* The job to cancel is known: the modal dialog when confirmCancel, the call
\* otherwise.
ConfirmOrCancel(c) ==
    IF c.confirmCancel
      THEN /\ cmd' = [c EXCEPT !.pc = "confirm"]
           /\ scancelCalls' = scancelCalls
      ELSE CallScancel(c)

\* The command is invoked: a warning without a job; the quick pick for an
\* array task.
cancelJobCommand(item) ==
    /\ cmd.pc = "idle"
    /\ commands < MaxCommands
    /\ commands' = commands + 1
    /\ IF item = None
         THEN /\ cmd' = [NoCommand EXCEPT !.message = "warning"]
              /\ scancelCalls' = scancelCalls
         ELSE LET c == [NoCommand EXCEPT !.jobId = item[1],
                                         !.confirmCancel = confirmCancelJob,
                                         !.jobIdToCancel = item[1]]
              IN  IF Positions(item[1], "_") # {}
                    THEN /\ cmd' = [c EXCEPT !.pc = "pick"]
                         /\ scancelCalls' = scancelCalls
                    ELSE ConfirmOrCancel(c)
    /\ UNCHANGED <<confirmCancelJob, providerVars, exceptViews>>

\* The quick pick answers: nothing, the entire array, or a specific job.
QuickPick(choice) ==
    /\ cmd.pc = "pick"
    /\ IF choice = "dismiss"
         THEN /\ cmd' = [cmd EXCEPT !.pc = "idle", !.dismissed = TRUE]
              /\ scancelCalls' = scancelCalls
       ELSE IF choice = "entire"
         THEN ConfirmOrCancel([cmd EXCEPT !.jobIdToCancel = Split(cmd.jobId, "_")[1]])
       ELSE /\ cmd' = [cmd EXCEPT !.pc = "input"]
            /\ scancelCalls' = scancelCalls
    /\ UNCHANGED <<confirmCancelJob, commands, providerVars, exceptViews>>

\* The input box answers: nothing, or a text validateInput accepts.
InputBox(value) ==
    /\ cmd.pc = "input"
    /\ IF value = None
         THEN /\ cmd' = [cmd EXCEPT !.pc = "idle", !.dismissed = TRUE]
              /\ scancelCalls' = scancelCalls
         ELSE /\ ValidateInput(value[1], Split(cmd.jobId, "_")[1])
              /\ ConfirmOrCancel([cmd EXCEPT !.jobIdToCancel = value[1]])
    /\ UNCHANGED <<confirmCancelJob, commands, providerVars, exceptViews>>

\* The modal dialog answers: 'Cancel Job', or nothing.
Confirmation(answer) ==
    /\ cmd.pc = "confirm"
    /\ IF Confirmed(answer)
         THEN CallScancel([cmd EXCEPT !.confirmation = answer])
         ELSE /\ cmd' = [cmd EXCEPT !.pc = "idle", !.confirmation = answer,
                                    !.dismissed = TRUE]
              /\ scancelCalls' = scancelCalls
    /\ UNCHANGED <<confirmCancelJob, commands, providerVars, exceptViews>>

\* cancelJob() answers: on success a message and slurmJobProvider.refresh(),
\* on failure an error message.
ScancelDone(success) ==
    /\ cmd.pc = "scancel"
    /\ IF success
         THEN /\ cmd' = [cmd EXCEPT !.pc = "idle", !.message = "info", !.refreshed = TRUE]
              /\ refresh("jobs")
         ELSE /\ cmd' = [cmd EXCEPT !.pc = "idle", !.message = "error"]
              /\ UNCHANGED <<cachedJobs, cachedSlurmAvailable, fired, rootCalls, viewLog>>
    /\ UNCHANGED <<confirmCancelJob, commands, scancelCalls, cluster, lastStarted, exceptViews>>

\* The user changes the setting.
SetConfirmCancelJob(value) ==
    /\ confirmCancelJob # value
    /\ confirmCancelJob' = value
    /\ UNCHANGED <<commands, cmd, scancelCalls, providerVars, exceptViews>>

-----------------------------------------------------------------------------
(* The array selector parser and validator.  The 1.1.0 release notes and    *)
(* the README describe it; its code is not among the sources, and the       *)
(* definitions of this section follow section 4.6 of the specification.     *)

\* A selector resolving to more indices than this asks for an extra
\* confirmation.
LargeBatch == 100

\* Longest explicit list explored.
MaxListLen == 3

DigitChar(d) ==
    CASE d = 0 -> "0" [] d = 1 -> "1" [] d = 2 -> "2" [] d = 3 -> "3" [] d = 4 -> "4"
      [] d = 5 -> "5" [] d = 6 -> "6" [] d = 7 -> "7" [] d = 8 -> "8" [] d = 9 -> "9"

\* The decimal text of a natural number.
RECURSIVE ToText(_)
ToText(n) == IF n < 10 THEN <<DigitChar(n)>> ELSE ToText(n \div 10) \o <<DigitChar(n % 10)>>

\* An integer of the grammar: digits only, at least one.
IsInteger(s) == s # EmptyStr /\ \A i \in DOMAIN s : s[i] \in Digits

ToInteger(s) == LeadingDigits(s, None)[1]

NotASelector == [kind |-> "malformed", low |-> 0, high |-> 0, step |-> 0, indices |-> <<>>]

\* <low>-<high>, low <= high
IsIndexRange(s) ==
    LET parts == Split(s, "-")
    IN  /\ Len(parts) = 2
        /\ IsInteger(parts[1])
        /\ IsInteger(parts[2])
        /\ ToInteger(parts[1]) <= ToInteger(parts[2])

\* The four forms of the grammar, tried in this order.
ParseSelector(selector) ==
    LET byDash == Split(selector, "-")
        byColon == Split(selector, ":")
        byComma == Split(selector, ",")
    IN  IF selector = EmptyStr
          THEN [NotASelector EXCEPT !.kind = "entire"]
        ELSE IF IsIndexRange(selector)
          THEN [NotASelector EXCEPT !.kind = "range",
                                    !.low = ToInteger(byDash[1]),
                                    !.high = ToInteger(byDash[2]),
                                    !.step = 1]
        ELSE IF /\ Len(byColon) = 2
                /\ IsIndexRange(byColon[1])
                /\ IsInteger(byColon[2])
                /\ ToInteger(byColon[2]) >= 1
          THEN [NotASelector EXCEPT !.kind = "stepped",
                                    !.low = ToInteger(Split(byColon[1], "-")[1]),
                                    !.high = ToInteger(Split(byColon[1], "-")[2]),
                                    !.step = ToInteger(byColon[2])]
        ELSE IF \A i \in DOMAIN byComma : IsInteger(byComma[i])
          THEN [NotASelector EXCEPT !.kind = "list",
                                    !.indices = [i \in DOMAIN byComma |->
                                                    ToInteger(byComma[i])]]
        ELSE NotASelector

\* The same, leaving out an index equal to high.
RECURSIVE SteppedIndices_Mut(_, _, _)
SteppedIndices_Mut(low, high, step) ==
    IF low >= high THEN <<>> ELSE <<low>> \o SteppedIndices_Mut(low + step, high, step)

\* low, low + step, low + 2 step, ... while <= high
RECURSIVE SteppedIndices(_, _, _)
SteppedIndices(low, high, step) ==
    IF low > high THEN <<>> ELSE <<low>> \o SteppedIndices(low + step, high, step)

ResolvedIndices(sel) ==
    IF sel.kind = "list" THEN sel.indices
    ELSE SteppedIndices(sel.low, sel.high, sel.step)

\* The first position of indices holding a value an earlier position holds.
FirstDuplicate(indices) ==
    LET dups == {i \in DOMAIN indices : \E k \in 1..(i - 1) : indices[k] = indices[i]}
    IN  IF dups = {} THEN 0 ELSE Min(dups)

SelectorRejected(reason, index) ==
    [ok |-> FALSE, ids |-> <<>>, flagged |-> FALSE, reason |-> reason, index |-> index]

\* Acceptance, flagging a batch of LargeBatch already.
SelectorAccepted_Mut(ids, count) ==
    [ok |-> TRUE, ids |-> ids, flagged |-> count >= LargeBatch, reason |-> "none",
     index |-> None]

SelectorAccepted(ids, count) ==
    [ok |-> TRUE, ids |-> ids, flagged |-> count > LargeBatch, reason |-> "none",
     index |-> None]

\* The bounds test on one resolved index, clamping instead of rejecting.
OutOfBounds_Mut(index, low, high) == FALSE

\* The bounds test on one resolved index.
OutOfBounds(index, low, high) == index < low \/ index > high

\* The identifier of one resolved index: baseId_index
TaskId(baseId, index) == baseId \o <<"_">> \o ToText(index)

\* Validation: the bare base id for the entire array; otherwise every
\* resolved index within [low, high], an explicit list without repetition,
\* and the identifiers in the order resolved.
ValidateSelector(baseId, selector, low, high) ==
    LET sel == ParseSelector(selector)
        indices == ResolvedIndices(sel)
        outside == {i \in DOMAIN indices : OutOfBounds(indices[i], low, high)}
    IN  IF sel.kind = "malformed" THEN SelectorRejected("malformed", None)
        ELSE IF sel.kind = "entire" THEN SelectorAccepted(<<baseId>>, 0)
        ELSE IF outside # {}
          THEN SelectorRejected("out of bounds", Some(indices[Min(outside)]))
        ELSE IF sel.kind = "list" /\ FirstDuplicate(indices) # 0
          THEN SelectorRejected("duplicate", Some(indices[FirstDuplicate(indices)]))
        ELSE SelectorAccepted([i \in DOMAIN indices |-> TaskId(baseId, indices[i])],
                              Len(indices))

-----------------------------------------------------------------------------
(* Time arithmetic: parseTimeToSeconds and calculateProgress *)

Unlimited == <<"U", "N", "L", "I", "M", "I", "T", "E", "D">>
Invalid == <<"I", "N", "V", "A", "L", "I", "D">>

\* The final sum, a day taken as 84600 seconds.
TotalSeconds_Mut(days, hours, minutes, seconds) ==
    days * 84600 + hours * 3600 + minutes * 60 + seconds

\* days * 86400 + hours * 3600 + minutes * 60 + seconds
TotalSeconds(days, hours, minutes, seconds) ==
    days * 86400 + hours * 3600 + minutes * 60 + seconds

\* parseTimeToSeconds(timeStr), for a timeStr without sign or white space
parseTimeToSeconds(timeStr) ==
    IF Falsy(timeStr) \/ timeStr = NA \/ timeStr = Unlimited \/ timeStr = Invalid
      THEN -1
    ELSE LET hasDays == Positions(timeStr, "-") # {}
             byDash == Split(timeStr, "-")
             days == IF hasDays THEN ParseIntOr0(byDash[1]) ELSE 0
             timePart == IF hasDays THEN byDash[2] ELSE timeStr
             texts == Split(timePart, ":")
             parts == [i \in DOMAIN texts |-> ParseIntOr0(texts[i])]
         IN  IF Len(parts) = 3 THEN TotalSeconds(days, parts[1], parts[2], parts[3])
             ELSE IF Len(parts) = 2 THEN TotalSeconds(days, 0, parts[1], parts[2])
             ELSE IF Len(parts) = 1 THEN TotalSeconds(days, 0, 0, parts[1])
             ELSE TotalSeconds(days, 0, 0, 0)

\* Math.round(num / den * 100) for num >= 0 and den > 0: the integer nearest
\* to the quotient; where the quotient lies halfway between two integers the
\* floating-point product decides, and the model takes both.
RoundedPercent(num, den) ==
    LET q == (100 * num) \div den
        r == (100 * num) % den
    IN  IF 2 * r < den THEN {q}
        ELSE IF 2 * r > den THEN {q + 1}
        ELSE {q, q + 1}

\* The cap, left out.
AtMost100_Mut(x) == x

\* Math.min(100, x)
AtMost100(x) == IF x > 100 THEN 100 ELSE x

\* calculateProgress(elapsed, limit): the values it can return
calculateProgress(elapsed, limit) ==
    LET elapsedSec == parseTimeToSeconds(elapsed)
        limitSec == parseTimeToSeconds(limit)
    IN  IF elapsedSec < 0 \/ limitSec <= 0 THEN {-1}
        ELSE {AtMost100(p) : p \in RoundedPercent(elapsedSec, limitSec)}

-----------------------------------------------------------------------------
(* SlurmService.getJobDetails: the GPU count and type read from the output  *)
(* of `scontrol show job`.  The regular expressions are applied to the text *)
(* as JavaScript's String.match applies them: the leftmost match, and for   *)
(* `.*` the longest stretch of the line that lets the rest match.           *)

\* String.prototype.toUpperCase
ToUpperCase(s) ==
    [i \in DOMAIN s |->
        IF \E k \in DOMAIN LowerCase : LowerCase[k] = s[i]
          THEN UpperCase[CHOOSE k \in DOMAIN LowerCase : LowerCase[k] = s[i]]
          ELSE s[i]]

\* \s
WhiteSpace == {" ", "\n", "\t"}

\* Where the longest run from position i of characters outside stop ends
\* ([^...]+ matches it when it is not empty: the character after it is in
\* stop, so no shorter run lets the rest match).
RunEnd(s, i, stop) ==
    Min({k \in i..Len(s) : s[k] \in stop} \cup {Len(s) + 1}) - 1

\* Where the longest run of digits from position i ends (\d+).
DigitsEnd(s, i) ==
    Min({k \in i..Len(s) : s[k] \notin Digits} \cup {Len(s) + 1}) - 1

\* prefix([^sep]+)sep(\d+) matched at position p: groups 1 and 2.
TypeCountAt(s, p, prefix, sep) ==
    LET a == p + Len(prefix)
        e == RunEnd(s, a, {sep})
        d == DigitsEnd(s, e + 2)
    IN  IF StartsAt(s, p, prefix) /\ e >= a /\ e < Len(s) /\ d >= e + 2
          THEN Some(<<SubSeq(s, a, e), SubSeq(s, e + 2, d)>>)
          ELSE None

\* prefix(\d+) matched at position p: group 1.
CountAt(s, p, prefix) ==
    LET a == p + Len(prefix)
        d == DigitsEnd(s, a)
    IN  IF StartsAt(s, p, prefix) /\ d >= a THEN Some(<<SubSeq(s, a, d)>>) ELSE None

\* The leftmost position of s at which at(p) matches, and the match there.
Leftmost(s, at(_)) ==
    LET ps == {p \in DOMAIN s : at(p) # None}
    IN  IF ps = {} THEN None ELSE at(Min(ps))

\* AllocTRES=.*<rest>: from the leftmost AllocTRES= that lets the whole
\* match, the last position of its line at which rest(q) matches.
AfterAllocTres(s, rest(_)) ==
    LET key == <<"A", "l", "l", "o", "c", "T", "R", "E", "S", "=">>
        OnLine(p, q) == q >= p + Len(key) /\ \A k \in (p + Len(key))..(q - 1) : s[k] # "\n"
        qs(p) == {q \in DOMAIN s : OnLine(p, q) /\ rest(q) # None}
        ps == {p \in DOMAIN s : StartsAt(s, p, key) /\ qs(p) # {}}
    IN  IF ps = {} THEN None ELSE rest(Max(qs(Min(ps))))

GresGpu == <<"g", "r", "e", "s", "/", "g", "p", "u">>

\* stdout.match(/TresPerNode=gres\/gpu:([^:]+):(\d+)/)
tresPerNodeMatch(stdout) ==
    Leftmost(stdout, LAMBDA p : TypeCountAt(stdout, p,
        <<"T", "r", "e", "s", "P", "e", "r", "N", "o", "d", "e", "=">> \o GresGpu \o <<":">>,
        ":"))

\* stdout.match(/AllocTRES=.*gres\/gpu:([^=]+)=(\d+)/)
allocTresTypeMatch(stdout) ==
    AfterAllocTres(stdout, LAMBDA q : TypeCountAt(stdout, q, GresGpu \o <<":">>, "="))

\* stdout.match(/AllocTRES=.*gres\/gpu=(\d+)/)
allocTresMatch(stdout) ==
    AfterAllocTres(stdout, LAMBDA q : CountAt(stdout, q, GresGpu \o <<"=">>))

\* stdout.match(/Gres=([^\s]+)/)
gresMatch(stdout) ==
    Leftmost(stdout, LAMBDA p :
        LET a == p + 5
            e == RunEnd(stdout, a, WhiteSpace)
        IN  IF StartsAt(stdout, p, <<"G", "r", "e", "s", "=">>) /\ e >= a
              THEN Some(<<SubSeq(stdout, a, e)>>)
              ELSE None)

\* gresMatch[1].match(/gpu:([^:]+):(\d+)/)
gpuTypeCountMatch(gres) ==
    Leftmost(gres, LAMBDA p : TypeCountAt(gres, p, <<"g", "p", "u", ":">>, ":"))

\* gresMatch[1].match(/gpu:(\d+)/)
gpuCountMatch(gres) ==
    Leftmost(gres, LAMBDA p : CountAt(gres, p, <<"g", "p", "u", ":">>))

\* parseInt(digits, 10) of a run of digits
ParseInt(digits) == ParseIntOr0(digits)

\* !gpuType for string | undefined (a matched type is never '')
NoType(gpuType) == gpuType = None

\* !gpuCount for number | undefined: undefined and 0
NoCount(gpuCount) == gpuCount = None \/ gpuCount = Some(0)

GpuFields(gpuCount, gpuType) == [gpuCount |-> gpuCount, gpuType |-> gpuType]

\* The TresPerNode block.
FromTresPerNode(stdout) ==
    LET mt == tresPerNodeMatch(stdout)
    IN  IF mt # None
          THEN GpuFields(Some(ParseInt(mt[1][2])), Some(ToUpperCase(mt[1][1])))
          ELSE GpuFields(None, None)

\* The block `if (!gpuType)` over AllocTRES with a type.
FromAllocTresType(stdout, g) ==
    LET mt == allocTresTypeMatch(stdout)
    IN  IF NoType(g.gpuType) /\ mt # None
          THEN GpuFields(Some(ParseInt(mt[1][2])), Some(ToUpperCase(mt[1][1])))
          ELSE g

\* The first block `if (!gpuCount)`, over AllocTRES with a count only.
FromAllocTres(stdout, g) ==
    LET mt == allocTresMatch(stdout)
    IN  IF NoCount(g.gpuCount) /\ mt # None
          THEN GpuFields(Some(ParseInt(mt[1][1])), g.gpuType)
          ELSE g

\* The second block `if (!gpuCount)`, over Gres.
FromGres(stdout, g) ==
    LET mg == gresMatch(stdout)
    IN  IF NoCount(g.gpuCount) /\ mg # None /\ mg[1][1] # <<"(", "n", "u", "l", "l", ")">>
          THEN LET tc == gpuTypeCountMatch(mg[1][1])
                   c == gpuCountMatch(mg[1][1])
               IN  IF tc # None
                     THEN GpuFields(Some(ParseInt(tc[1][2])), Some(ToUpperCase(tc[1][1])))
                   ELSE IF c # None
                     THEN GpuFields(Some(ParseInt(c[1][1])), g.gpuType)
                   ELSE g
          ELSE g

\* gpuCount and gpuType as getJobDetails returns them.
ParseGpu(stdout) ==
    FromGres(stdout, FromAllocTres(stdout, FromAllocTresType(stdout, FromTresPerNode(stdout))))

-----------------------------------------------------------------------------
(* SlurmService.getHistoryJobPaths *)

ErrPath == <<"/", "e">>

\* { stdoutPath, stderrPath }
PathPair(stdoutPath, stderrPath) == [stdoutPath |-> stdoutPath, stderrPath |-> stderrPath]

\* this.pathCache.get(jobId), never finding anything
CachedPaths_Mut(cache, jobId) == None

\* this.pathCache.get(jobId)
CachedPaths(cache, jobId) ==
    IF jobId \in DOMAIN cache THEN Some(cache[jobId]) ELSE None

\* The pairs the scontrol answers of the calls so far gave for the job.
ResolvedSoFar(jobId) ==
    {pathCalls[k].resolved[1] :
        k \in {n \in DOMAIN pathCalls :
                 pathCalls[n].jobId = jobId /\ pathCalls[n].resolved # None}}

\* A call that has just started.
PathCall(jobId, cached) ==
    [jobId |-> jobId,
     pc |-> IF cached = None THEN "scontrol" ELSE "returned",
     cached |-> IF cached = None THEN None
                ELSE Some(PathPair(cached[1].stdoutPath, cached[1].stderrPath)),
     executed |-> cached = None,
     answered |-> FALSE,
     resolved |-> None,
     prior |-> ResolvedSoFar(jobId),
     setCall |-> 0,
     value |-> IF cached = None THEN None
               ELSE Some(PathPair(cached[1].stdoutPath, cached[1].stderrPath))]

\* What the steps of getHistoryJobPaths leave alone.
exceptHistoryPaths ==
    <<clockVars, pinVars, scriptVars, jobsVars, providerVars, cancelVars, callVars, pageVars,
      timerVars>>

\* getHistoryJobPaths(jobId) is called: the cached pair is returned, or
\* scontrol is started.
getHistoryJobPaths(jobId) ==
    /\ pathCalls' = Append(pathCalls, PathCall(jobId, CachedPaths(pathCache, jobId)))
    /\ lastCall' = NoCall
    /\ lastRet' = NoRet
    /\ UNCHANGED <<calls, pathVars, exceptHistoryPaths>>

\* scontrol answers call k (out.ok: it printed the job's record): without a
\* match, or when it failed, the call returns 'N/A' twice; otherwise it calls
\* pathCache.set with the pair and returns the pair once set has returned.
HistoryPathsScontrol(k, out) ==
    /\ pathCalls[k].pc = "scontrol"
    /\ IF out.ok /\ (out.StdOut # None \/ out.StdErr # None)
         THEN LET paths == PathPair(MatchOr(out.StdOut, NA), MatchOr(out.StdErr, NA))
              IN  /\ pathSet(pathCalls[k].jobId, paths.stdoutPath, paths.stderrPath)
                  /\ pathCalls' = [pathCalls EXCEPT
                        ![k].answered = TRUE,
                        ![k].resolved = Some(paths),
                        ![k].setCall = calls',
                        ![k].pc = IF lastRet'.op = "set" THEN "returned" ELSE "awaitSet",
                        ![k].value = IF lastRet'.op = "set" THEN Some(paths) ELSE None]
         ELSE /\ pathCalls' = [pathCalls EXCEPT
                        ![k].answered = TRUE,
                        ![k].pc = "returned",
                        ![k].value = Some(PathPair(NA, NA))]
              /\ lastCall' = NoCall
              /\ lastRet' = NoRet
              /\ UNCHANGED <<calls, pathVars>>
    /\ UNCHANGED exceptHistoryPaths

\* The call whose pathCache.set issued the oldest update in flight.
AwaitingSet ==
    CHOOSE k \in DOMAIN pathCalls :
        /\ pathCalls[k].pc = "awaitSet"
        /\ \A n \in DOMAIN pathCalls :
              pathCalls[n].pc = "awaitSet" => pathCalls[k].setCall <= pathCalls[n].setCall

\* The update resolves: set returns and the call returns the pair.
HistoryPathsSetResolved ==
    /\ PathUpdateResolved
    /\ pathCalls' = [pathCalls EXCEPT ![AwaitingSet].pc = "returned",
                                      ![AwaitingSet].value = pathCalls[AwaitingSet].resolved]
    /\ UNCHANGED exceptHistoryPaths

\* The update rejects: set rejects inside the try block, whose empty catch
\* leads to the final return of 'N/A' twice.
HistoryPathsSetRejected ==
    /\ PathUpdateRejected
    /\ pathCalls' = [pathCalls EXCEPT ![AwaitingSet].pc = "returned",
                                      ![AwaitingSet].value = Some(PathPair(NA, NA))]
    /\ UNCHANGED exceptHistoryPaths

-----------------------------------------------------------------------------

-----------------------------------------------------------------------------
(* The auto-refresh timer (extension.ts) *)

\* stopAutoRefresh(): the module variable and the live interval timers
\* afterwards.
stopAutoRefresh_Forget(timer, live) == [timer |-> None, live |-> live]

stopAutoRefresh(timer, live) ==
    IF timer # None
      THEN [timer |-> None, live |-> live \ {timer[1]}]
      ELSE [timer |-> timer, live |-> live]

\* updateStatusBar(enabled, interval)
updateStatusBar(enabled, interval) ==
    IF enabled THEN [text |-> "spin", interval |-> Some(interval)]
    ELSE [text |-> "off", interval |-> None]

\* startAutoRefresh(): stop the timer, read the two settings, set an interval
\* timer when they allow one, and update the status bar.
startAutoRefresh(enabled, interval) ==
    LET stopped == stopAutoRefresh(autoRefreshTimer, intervals)
        handle == intervalsSet + 1
    IN  /\ IF enabled /\ interval >= 5
             THEN /\ autoRefreshTimer' = Some(handle)
                  /\ intervals' = stopped.live \cup {handle}
                  /\ intervalsSet' = handle
             ELSE /\ autoRefreshTimer' = stopped.timer
                  /\ intervals' = stopped.live
                  /\ intervalsSet' = intervalsSet
        /\ statusBarItem' = updateStatusBar(enabled, interval)

\* activate(context): the listener is registered and startAutoRefresh called.
activate ==
    /\ activation = "inactive"
    /\ intervalsSet < MaxIntervals
    /\ activation' = "active"
    /\ startAutoRefresh(autoRefreshEnabled, autoRefreshInterval)
    /\ UNCHANGED <<autoRefreshEnabled, autoRefreshInterval, exceptTimer>>

\* One of the two settings changes; configChangeListener is subscribed while
\* the extension is active and calls startAutoRefresh, which reads the new
\* values.
ConfigurationChange(enabled, interval) ==
    /\ <<enabled, interval>> # <<autoRefreshEnabled, autoRefreshInterval>>
    /\ enabled = autoRefreshEnabled \/ interval = autoRefreshInterval
    /\ intervalsSet < MaxIntervals
    /\ autoRefreshEnabled' = enabled
    /\ autoRefreshInterval' = interval
    /\ IF activation = "active"
         THEN startAutoRefresh(enabled, interval)
         ELSE UNCHANGED <<autoRefreshTimer, intervals, intervalsSet, statusBarItem>>
    /\ UNCHANGED <<activation, exceptTimer>>

\* An interval timer fires: both providers are refreshed.
IntervalElapsed(handle) ==
    /\ handle \in intervals
    /\ cachedJobs' = [p \in Providers |-> <<>>]
    /\ cachedSlurmAvailable' = None
    /\ fired' = [p \in Providers |-> TRUE]
    /\ rootCalls' = [p \in Providers |-> Overtaken(rootCalls[p])]
    /\ viewLog' = [p \in Providers |-> Refreshed]
    /\ UNCHANGED <<cluster, lastStarted, cancelVars, exceptViews>>

\* deactivate(): the subscriptions of the context are disposed of with it.
deactivate ==
    /\ activation = "active"
    /\ activation' = "deactivated"
    /\ autoRefreshTimer' = stopAutoRefresh(autoRefreshTimer, intervals).timer
    /\ intervals' = stopAutoRefresh(autoRefreshTimer, intervals).live
    /\ UNCHANGED <<autoRefreshEnabled, autoRefreshInterval, intervalsSet, statusBarItem,
                   exceptTimer>>

(* Initial state: a first activation with nothing stored. *)

\* Everything of the caches but what the path cache holds.
InitExceptPaths ==
    /\ now = 0
    /\ ticks = 0
    /\ calls = 0
    /\ pinnedJobs = EmptyMap
    /\ pinStore = EmptyMap
    /\ pinWrites = <<>>
    /\ pathWrites = <<>>
    /\ scriptCache = EmptyMap
    /\ scriptStore = EmptyMap
    /\ scriptWrites = <<>>
    /\ files = {}
    /\ scriptHist = NoScriptHist
    /\ lastCall = NoCall
    /\ lastRet = NoRet

InitCaches ==
    /\ InitExceptPaths
    /\ pathCache = EmptyMap
    /\ pathStore = EmptyMap

InitJobs ==
    /\ fetchPc = "idle"
    /\ jobs = <<>>
    /\ cbPc = <<>>
    /\ fetchLog = NoFetchLog
    /\ getJobsRet = NoResult
    /\ historyRet = NoHistoryRet
    /\ pathCalls = <<>>

\* The views are shown and ask for their roots; confirmCancelJob has its
\* default.
InitViews ==
    /\ cluster = 1
    /\ cachedJobs = [p \in Providers |-> <<>>]
    /\ cachedSlurmAvailable = None
    /\ fired = [p \in Providers |-> TRUE]
    /\ rootCalls = [p \in Providers |-> <<>>]
    /\ lastStarted = [p \in Providers |-> None]
    /\ viewLog = [p \in Providers |-> NoViewLog]
    /\ historyDays = 7
    /\ searchFilter = <<>>
    /\ currentPage = 0
    /\ totalFilteredJobs = 0
    /\ pageLog = None
    /\ confirmCancelJob = TRUE
    /\ commands = 0
    /\ cmd = NoCommand
    /\ scancelCalls = <<>>

\* The settings have their defaults and nothing is activated.
InitTimer ==
    /\ activation = "inactive"
    /\ autoRefreshEnabled = FALSE
    /\ autoRefreshInterval = 30
    /\ autoRefreshTimer = None
    /\ intervals = {}
    /\ intervalsSet = 0
    /\ statusBarItem = None

\* Everything but the arguments of the function under study.
InitProgram == InitCaches /\ InitJobs /\ InitViews /\ InitTimer

NoArgs == [fn |-> "none"]
NotCalled == [status |-> "none"]

Init == InitProgram /\ args = NoArgs /\ ret = NotCalled

-----------------------------------------------------------------------------
(* The pin cache alone *)

NextPin ==
    \/ PinTick
    \/ \E j \in JobIds : pin(j)
    \/ \E j \in JobIds : unpin(j)
    \/ pinClear
    \/ \E activeJobIds \in SUBSET JobIds : cleanupStaleJobs(activeJobIds)
    \/ PinWriteDone
    \/ PinWriteFail
    \/ NewPinnedJobsCache

SpecPin == Init /\ [][NextPin]_vars

-----------------------------------------------------------------------------
(* The path cache alone *)

PathSet ==
    /\ \E j \in JobIds, o \in PathArgs, e \in PathArgs : pathSet(j, o, e)
    /\ UNCHANGED <<clockVars, exceptPath>>

NextPath ==
    \/ PathTick
    \/ PathSet
    \/ pathClear
    \/ PathWriteDone
    \/ PathWriteFail
    \/ NewJobPathCache

SpecPath == Init /\ [][NextPath]_vars

-----------------------------------------------------------------------------
(* The script cache alone *)

ScriptCache ==
    /\ \E j \in JobIds, p \in ScriptArgs, exists \in BOOLEAN, copyOk \in BOOLEAN :
          cacheScript(j, p, exists, copyOk)
    /\ UNCHANGED <<clockVars, exceptScript>>

NextScript ==
    \/ ScriptTick
    \/ ScriptCache
    \/ \E kept \in SUBSET files : scriptClear(kept)
    \/ ScriptWriteDone
    \/ ScriptWriteFail
    \/ NewSubmitScriptCache

SpecScript == Init /\ [][NextScript]_vars

-----------------------------------------------------------------------------
(* The three caches over sessions of the extension *)

\* A new session: activate() constructs the path cache and the script cache,
\* and the pin cache is constructed from the same context.
Activate ==
    /\ PathConstruct
    /\ \E kept \in SUBSET files : ScriptConstruct(kept)
    /\ PinConstruct
    /\ lastCall' = Call("extension", "activate", EmptyStr, {})
    /\ lastRet' = Ret("extension", "activate", EmptyStr, "ok", None)
    /\ UNCHANGED <<clockVars, calls, appVars>>

\* Both maximum ages are 30 days, which is past the 7 days of the pins.
CachesTick == ClockStep(PathClockSteps \cup ScriptClockSteps) /\ UNCHANGED exceptClock

\* Each cache is filled by its own method, with arguments that store an entry.
CachesPathSet ==
    /\ \E j \in JobIds : pathSet(j, OutPath, NA)
    /\ UNCHANGED <<clockVars, exceptPath>>
CachesCacheScript ==
    /\ \E j \in OneJob : cacheScript(j, ScriptSh, TRUE, TRUE)
    /\ UNCHANGED <<clockVars, exceptScript>>

NextCaches ==
    \/ CachesTick
    \/ \E j \in OneJob : pin(j)
    \/ PinWriteDone
    \/ PinWriteFail
    \/ CachesPathSet
    \/ PathWriteDone
    \/ PathWriteFail
    \/ CachesCacheScript
    \/ ScriptWriteDone
    \/ ScriptWriteFail
    \/ Activate

SpecCaches == Init /\ [][NextCaches]_vars

-----------------------------------------------------------------------------
(* SlurmService over the path cache and the script cache *)

NextJobs ==
    \/ \E out \in SqueueOutcomes : getJobs(out)
    \/ \E i \in DOMAIN jobs, out \in ScontrolOutcomes : JobDetails(i, out)
    \/ JobSetResolved
    \/ JobSetRejected
    \/ \E i \in DOMAIN jobs, exists \in BOOLEAN : JobCacheScript(i, exists, TRUE)
    \/ JobScriptResolved
    \/ JobScriptRejected
    \/ \E gpu \in GpuOutcomes : GetJobsReturn(gpu)
    \/ \E out \in SacctOutcomes : getJobHistory(out)

SpecJobs == Init /\ [][NextJobs]_vars

-----------------------------------------------------------------------------
(* The two tree views *)

NextViews ==
    \/ ClusterChange
    \/ \E p \in Providers : Refresh(p)
    \/ JobsGetRootItems
    \/ \E k \in 1..MaxInFlight, ok \in BOOLEAN, r \in FetchResults :
          JobsAvailable(k, ok, r)
    \/ \E r \in FetchResults : HistoryGetRootItems(r)
    \/ \E k \in 1..MaxInFlight, ok \in BOOLEAN, r \in FetchResults :
          HistoryAvailable(k, ok, r)
    \/ \E p \in Providers, k \in 1..MaxInFlight : Fetched(p, k)

SpecViews == Init /\ [][NextViews]_vars

-----------------------------------------------------------------------------
(* The cancel command over the job view *)

\* The job view is filled from a cluster that answers; the command is invoked
\* on its items.
NextCancel ==
    \/ JobsGetRootItems
    \/ \E k \in 1..MaxInFlight : JobsAvailable(k, TRUE, Listing(cluster))
    \/ \E k \in 1..MaxInFlight : Fetched("jobs", k)
    \/ \E item \in Items : cancelJobCommand(item)
    \/ \E choice \in {"dismiss", "entire", "specific"} : QuickPick(choice)
    \/ \E value \in {None} \cup {Some(t) : t \in InputTexts} : InputBox(value)
    \/ \E answer \in {None, Some("Cancel Job")} : Confirmation(answer)
    \/ \E success \in BOOLEAN : ScancelDone(success)
    \/ \E value \in BOOLEAN : SetConfirmCancelJob(value)

SpecCancel == Init /\ [][NextCancel]_vars

\* The actual range of the array the job view lists a task of, as the
\* scheduler would report it.
ActualBounds == <<0, 1>>

-----------------------------------------------------------------------------
(* The selector validator applied to one request *)

\* What a call of a function leaves alone.
exceptCall ==
    <<clockVars, budgetVars, pinVars, pathVars, scriptVars, eventVars, jobsVars,
      providerVars, cancelVars, historyPathVars, pageVars, timerVars>>

Returns(value) == [status |-> "ok", value |-> value]

BaseIds == { <<"7">>, <<"1", "2">> }
ArrayBounds == { <<0, 20>>, <<0, 100>>, <<1, 200>> }
IndexValues == {0, 1, 5, 20, 21, 50, 100, 101}
StepValues == {0, 1, 2, 7}
ListValues == {0, 5, 6, 21}

\* What the operator means to select; raw is a text typed as it is.
SelectorForm(kind, low, high, step, indices, raw) ==
    [kind |-> kind, low |-> low, high |-> high, step |-> step, indices |-> indices,
     raw |-> raw]

RawSelectors ==
    { <<"a">>, <<"1", "-">>, <<"-", "1">>, <<"1", "-", "5", ":">>, <<"1", ",", ",", "5">>,
      <<"1", ",", "x">>, <<"1", "-", "5", "-", "6">>, <<"0", "5">>, <<"0", "-", "0", "5">> }

SelectorForms ==
    {SelectorForm("entire", 0, 0, 0, <<>>, EmptyStr)}
    \cup {SelectorForm("range", l, h, 0, <<>>, EmptyStr) : l \in IndexValues, h \in IndexValues}
    \cup {SelectorForm("stepped", lh[1], lh[2], s, <<>>, EmptyStr) :
             lh \in IndexValues \X IndexValues, s \in StepValues}
    \cup {SelectorForm("list", 0, 0, 0, q, EmptyStr) :
             q \in UNION {[1..n -> ListValues] : n \in 1..MaxListLen}}
    \cup {SelectorForm("raw", 0, 0, 0, <<>>, t) : t \in RawSelectors}

\* The text the operator types for a form.
SelectorText(f) ==
    CASE f.kind = "entire" -> EmptyStr
      [] f.kind = "range" -> ToText(f.low) \o <<"-">> \o ToText(f.high)
      [] f.kind = "stepped" ->
            ToText(f.low) \o <<"-">> \o ToText(f.high) \o <<":">> \o ToText(f.step)
      [] f.kind = "list" -> Join([i \in DOMAIN f.indices |-> ToText(f.indices[i])], ",")
      [] f.kind = "raw" -> f.raw

SelectorArgs ==
    {[fn |-> "validateSelector", baseId |-> b, form |-> f, selector |-> SelectorText(f),
      low |-> bd[1], high |-> bd[2]] :
        b \in BaseIds, f \in SelectorForms, bd \in ArrayBounds}

InitSelector == InitProgram /\ args \in SelectorArgs /\ ret = NotCalled

Validate ==
    /\ args.fn = "validateSelector"
    /\ ret = NotCalled
    /\ ret' = Returns(ValidateSelector(args.baseId, args.selector, args.low, args.high))
    /\ UNCHANGED <<args, exceptCall>>

NextSelector == Validate

SpecSelector == InitSelector /\ [][NextSelector]_vars

-----------------------------------------------------------------------------
(* The time functions applied to the strings squeue prints *)

\* Days of a duration explored beyond 0 and 1.
MaxDays == 2

DayValues == 0..MaxDays
HourValues == {0, 1, 23}
MinuteValues == {0, 30, 59}
SecondValues == {0, 45, 59}

\* Two digits, as squeue prints hours, minutes and seconds.
Pad2(n) == IF n < 10 THEN <<"0">> \o ToText(n) ELSE ToText(n)

\* A duration and the form it is printed in; raw is a text taken as it is.
Duration(kind, days, hours, minutes, seconds, raw) ==
    [kind |-> kind, days |-> days, hours |-> hours, minutes |-> minutes,
     seconds |-> seconds, raw |-> raw]

RawTimes ==
    { EmptyStr, NA, Unlimited, Invalid, <<"a">>, <<"1", "-", "1", "2">>, <<"1", "-">>,
      <<"1", ":", "2", ":", "3", ":", "4">>, <<"0", ":", "0", "0">>,
      <<"3", ":", "2", "0">>, <<"1", "0", ":", "0", "0">> }

Durations ==
    {Duration("D-HH:MM:SS", d, h, m, s, EmptyStr) :
        d \in DayValues, h \in HourValues, m \in MinuteValues, s \in SecondValues}
    \cup {Duration("HH:MM:SS", 0, h, m, s, EmptyStr) :
             h \in HourValues, m \in MinuteValues, s \in SecondValues}
    \cup {Duration("MM:SS", 0, 0, m, s, EmptyStr) : m \in MinuteValues, s \in SecondValues}
    \cup {Duration("SS", 0, 0, 0, s, EmptyStr) : s \in SecondValues}
    \cup {Duration("raw", 0, 0, 0, 0, t) : t \in RawTimes}

\* The text of a duration.
TimeText(f) ==
    LET ms == Pad2(f.minutes) \o <<":">> \o Pad2(f.seconds)
        hms == Pad2(f.hours) \o <<":">> \o ms
    IN  CASE f.kind = "D-HH:MM:SS" -> ToText(f.days) \o <<"-">> \o hms
          [] f.kind = "HH:MM:SS" -> hms
          [] f.kind = "MM:SS" -> ms
          [] f.kind = "SS" -> ToText(f.seconds)
          [] f.kind = "raw" -> f.raw

\* Elapsed times and limits handed to calculateProgress.
ProgressTimes ==
    {f \in Durations :
        \/ f.kind = "raw"
        \/ f.kind = "MM:SS"
        \/ f.kind = "HH:MM:SS" /\ f.minutes \in {0, 30} /\ f.seconds = 0}

TimeArgs ==
    {[fn |-> "parseTimeToSeconds", form |-> f, timeStr |-> TimeText(f)] : f \in Durations}
    \cup {[fn |-> "calculateProgress", form |-> e, elapsed |-> TimeText(e),
           limitForm |-> l, limit |-> TimeText(l)] :
             e \in ProgressTimes, l \in ProgressTimes}

InitTime == InitProgram /\ args \in TimeArgs /\ ret = NotCalled

ParseTime ==
    /\ args.fn = "parseTimeToSeconds"
    /\ ret = NotCalled
    /\ ret' = Returns(parseTimeToSeconds(args.timeStr))
    /\ UNCHANGED <<args, exceptCall>>

Progress ==
    /\ args.fn = "calculateProgress"
    /\ ret = NotCalled
    /\ \E p \in calculateProgress(args.elapsed, args.limit) : ret' = Returns(p)
    /\ UNCHANGED <<args, exceptCall>>

NextTime == ParseTime \/ Progress

SpecTime == InitTime /\ [][NextTime]_vars

-----------------------------------------------------------------------------
(* expandPathPlaceholders applied to the paths scontrol prints *)

\* Tokens a path is made of in one behaviour.
MaxPathTokens == 3

\* The placeholders, the escaped percent and plain text.
PathTokens ==
    { <<"%", "j">>, <<"%", "x">>, <<"%", "u">>, <<"%", "N">>, <<"%", "A">>, <<"%", "a">>,
      <<"%", "t">>, <<"%", "%">>, <<"j">>, <<"_">> }

RECURSIVE Flatten(_)
Flatten(tokens) == IF tokens = <<>> THEN <<>> ELSE Head(tokens) \o Flatten(Tail(tokens))

\* A job, a task of an array, and an id with a second '_'.
ExpandJobIds == { <<"7">>, <<"7", "_", "4">>, <<"7", "_", "4", "_", "5">> }
\* Job names: plain, holding a placeholder, holding a replacement pattern.
ExpandJobNames == { <<"n">>, <<"%", "u">>, <<"$", "&">> }
ExpandNodes == { EmptyStr, <<"n", "1", "[", "2", "]", ",", "n", "3">> }

ExpandArgs ==
    {[fn |-> "expandPathPlaceholders", tokens |-> t, path |-> Flatten(t), jobId |-> j,
      jobName |-> n, nodes |-> d] :
        t \in UNION {[1..k -> PathTokens] : k \in 1..MaxPathTokens},
        j \in ExpandJobIds, n \in ExpandJobNames, d \in ExpandNodes}

InitExpand == InitProgram /\ args \in ExpandArgs /\ ret = NotCalled

Expand ==
    /\ args.fn = "expandPathPlaceholders"
    /\ ret = NotCalled
    /\ ret' = Returns(expandPathPlaceholders(args.path, args.jobId, args.jobName,
                                             args.nodes))
    /\ UNCHANGED <<args, exceptCall>>

NextExpand == Expand

SpecExpand == InitExpand /\ [][NextExpand]_vars

-----------------------------------------------------------------------------
(* getJobHistory applied to what sacct prints *)

\* Lines of sacct's output in one behaviour.
MaxLines == 2

Unknown == <<"U", "n", "k", "n", "o", "w", "n">>
Suspended == <<"S", "U", "S", "P", "E", "N", "D", "E", "D">>

\* What sacct reports of one job or job step: its id, state and end time,
\* on a line of so many fields, padded with blanks or not.
Accounted(jobId, state, end, fields, padded) ==
    [jobId |-> jobId, state |-> state, end |-> end, fields |-> fields, padded |-> padded]

AccountedJobs ==
    { Accounted(<<"5">>, Completed, <<"1">>, 11, FALSE),
      Accounted(<<"6">>, Completed, <<"2">>, 9, TRUE),
      Accounted(<<"4">>, Completed, EmptyStr, 11, FALSE),
      Accounted(<<"3">>, Suspended, Unknown, 11, FALSE),
      Accounted(<<"5", ".", "0">>, Completed, <<"1">>, 11, FALSE),
      Accounted(<<"6", ".", "b">>, Completed, <<"2">>, 11, TRUE),
      Accounted(JobB, Running, Unknown, 11, FALSE),
      Accounted(<<"9">>, Pending, Unknown, 11, TRUE),
      Accounted(<<"2">>, Completed, <<"2">>, 8, FALSE),
      Accounted(EmptyStr, EmptyStr, EmptyStr, 1, TRUE) }

\* The line sacct prints: JobID|JobName|State|ExitCode|Start|End|Elapsed|
\* Partition|NodeList|AllocCPUS|MaxRSS, cut to the number of fields.
AccountedLine(f) ==
    LET pad(t) == IF f.padded THEN <<" ">> \o t \o <<" ">> ELSE t
        all == << pad(f.jobId), <<"a">>, pad(f.state), <<"0", ":", "0">>, <<"0">>,
                  pad(f.end), <<"1">>, <<"p">>, <<"n">>, <<"2">>, <<"1", "K">> >>
    IN  Join(SubSeq(all, 1, f.fields), "|")

\* sacct prints Unknown for an end time it does not know; at most one line of
\* an output leaves the field empty.
HistoryArgs ==
    {[fn |-> "getJobHistory", forms |-> fs,
      out |-> [ok |-> TRUE, lines |-> [i \in DOMAIN fs |-> AccountedLine(fs[i])]]] :
        fs \in {q \in UNION {[1..n -> AccountedJobs] : n \in 1..MaxLines} :
                  Cardinality({i \in DOMAIN q : q[i].end = EmptyStr /\ q[i].fields >= 9}) <= 1}}

InitHistory == InitProgram /\ args \in HistoryArgs /\ ret = NotCalled

FetchHistory ==
    /\ args.fn = "getJobHistory"
    /\ historyRet = NoHistoryRet
    /\ getJobHistory(args.out)

NextHistory == FetchHistory

SpecHistory == InitHistory /\ [][NextHistory]_vars

-----------------------------------------------------------------------------
(* One getJobs() refresh over a queue with several running jobs *)

\* A second running job of the queue.
JobC == <<"9">>
LineC == Join(<< JobC, <<"c">>, <<"R">>, <<"2">>, <<"p">>, <<"n", "3">>,
                 <<"9">>, <<"0">> >>, "|")

\* What `squeue` answers here: two running jobs, alone or around a job that
\* waits.
RunningOutcomes ==
    { [ok |-> TRUE, lines |-> <<LineA, LineC>>],
      [ok |-> TRUE, lines |-> <<LineC, LineB, LineA>>] }

NextFetch ==
    \/ \E out \in RunningOutcomes : getJobs(out)
    \/ \E i \in DOMAIN jobs, out \in ScontrolOutcomes : JobDetails(i, out)
    \/ JobSetResolved
    \/ JobSetRejected
    \/ \E i \in DOMAIN jobs, exists \in BOOLEAN : JobCacheScript(i, exists, TRUE)
    \/ JobScriptResolved
    \/ JobScriptRejected
    \/ \E gpu \in GpuOutcomes : GetJobsReturn(gpu)

SpecFetch == Init /\ [][NextFetch]_vars

-----------------------------------------------------------------------------
(* getJobDetails' GPU extraction applied to one output of scontrol *)

\* What a field says about GPUs: nothing, a type and a count, a count alone.
NoGpus == [kind |-> "none", type |-> EmptyStr, count |-> 0]
Typed(type, count) == [kind |-> "typed", type |-> type, count |-> count]
CountOnly(count) == [kind |-> "count", type |-> EmptyStr, count |-> count]

\* TresPerNode: not printed, or gres/gpu:<type>:<count>, or gres/gpu:<count>.
TresPerNodeFields ==
    {None, Some(Typed(<<"h", "2", "0", "0">>, 2)), Some(Typed(<<"h", "2", "0", "0">>, 0)),
     Some(CountOnly(2))}

\* AllocTRES: not printed, or cpu=1 followed by gres/gpu=<count>, by
\* gres/gpu:<type>=<count>, by both or by neither.
AllocTresFields ==
    {None,
     Some([count |-> None, typed |-> None]),
     Some([count |-> Some(4), typed |-> None]),
     Some([count |-> Some(0), typed |-> None]),
     Some([count |-> Some(4), typed |-> Some(Typed(<<"a", "1", "0", "0">>, 4))]),
     Some([count |-> None, typed |-> Some(Typed(<<"a", "1", "0", "0">>, 0))])}

\* Gres: not printed, (null), gpu:<type>:<count>, gpu:<count>.
GresFields ==
    {None, Some(NoGpus), Some(Typed(<<"v", "1", "0", "0">>, 8)), Some(CountOnly(8)),
     Some(CountOnly(0))}

GpuBlobs ==
    {[tresPerNode |-> t, allocTres |-> a, gres |-> g] :
        t \in TresPerNodeFields, a \in AllocTresFields, g \in GresFields}

\* The lines of scontrol's output for a blob, in the order scontrol prints
\* them.
BlobLines(b) ==
    <<<<"J", "o", "b", "I", "d", "=", "7">>>>
    \o (IF b.allocTres = None THEN <<>>
        ELSE << <<" ", "A", "l", "l", "o", "c", "T", "R", "E", "S", "=", "c", "p", "u", "=", "1">>
                \o (IF b.allocTres[1].count = None THEN EmptyStr
                    ELSE <<",">> \o GresGpu \o <<"=">> \o ToText(b.allocTres[1].count[1]))
                \o (IF b.allocTres[1].typed = None THEN EmptyStr
                    ELSE <<",">> \o GresGpu \o <<":">> \o b.allocTres[1].typed[1].type
                         \o <<"=">> \o ToText(b.allocTres[1].typed[1].count)) >>)
    \o (IF b.gres = None THEN <<>>
        ELSE << <<" ", "G", "r", "e", "s", "=">>
                \o (CASE b.gres[1].kind = "none" -> <<"(", "n", "u", "l", "l", ")">>
                      [] b.gres[1].kind = "typed" ->
                            <<"g", "p", "u", ":">> \o b.gres[1].type \o <<":">>
                            \o ToText(b.gres[1].count)
                      [] b.gres[1].kind = "count" ->
                            <<"g", "p", "u", ":">> \o ToText(b.gres[1].count))
                \o <<" ", "R", "e", "s", "=", "x">> >>)
    \o (IF b.tresPerNode = None THEN <<>>
        ELSE << <<" ", "T", "r", "e", "s", "P", "e", "r", "N", "o", "d", "e", "=">> \o GresGpu
                \o (IF b.tresPerNode[1].kind = "typed"
                      THEN <<":">> \o b.tresPerNode[1].type \o <<":">>
                           \o ToText(b.tresPerNode[1].count)
                      ELSE <<":">> \o ToText(b.tresPerNode[1].count)) >>)

GpuArgs ==
    {[fn |-> "getJobDetails", blob |-> b, stdout |-> Join(BlobLines(b), "\n")] :
        b \in GpuBlobs}

InitDetails == InitProgram /\ args \in GpuArgs /\ ret = NotCalled

Details ==
    /\ args.fn = "getJobDetails"
    /\ ret = NotCalled
    /\ ret' = Returns(ParseGpu(args.stdout))
    /\ UNCHANGED <<args, exceptCall>>

NextDetails == Details

SpecDetails == InitDetails /\ [][NextDetails]_vars

-----------------------------------------------------------------------------
(* getHistoryJobPaths over the path cache, within one session *)

\* getHistoryJobPaths calls in one behaviour.
MaxPathCalls == 3

\* What scontrol prints of a finished job's paths while it still knows the
\* job: both, one of them, neither.
ScontrolRecords ==
    {[ok |-> TRUE, StdOut |-> o, StdErr |-> e] :
        o \in {None, Some(OutPath)}, e \in {None, Some(ErrPath)}}

\* The job is no longer known to scontrol, or scontrol failed.
ScontrolGone == [ok |-> FALSE, StdOut |-> None, StdErr |-> None]

HistoryIds == {JobA, JobB}

\* The path cache at the start: empty, or holding the paths getJobs cached
\* while job 7_1 was active.
StoredPaths == {EmptyMap, [j \in {JobA} |-> CachedJobPaths(OutPath, NA, 0)]}

HistoryPathsArgs ==
    {[fn |-> "getHistoryJobPaths", records |-> r] : r \in [HistoryIds -> ScontrolRecords]}

InitHistoryPaths ==
    /\ InitExceptPaths
    /\ pathCache \in StoredPaths
    /\ pathStore = pathCache
    /\ InitJobs
    /\ InitViews
    /\ InitTimer
    /\ args \in HistoryPathsArgs
    /\ ret = NotCalled

NextHistoryPaths ==
    \/ \E j \in HistoryIds : Len(pathCalls) < MaxPathCalls /\ getHistoryJobPaths(j)
    \/ \E k \in DOMAIN pathCalls :
          \E out \in {ScontrolGone, args.records[pathCalls[k].jobId]} :
             HistoryPathsScontrol(k, out)
    \/ HistoryPathsSetResolved
    \/ HistoryPathsSetRejected

SpecHistoryPaths == InitHistoryPaths /\ [][NextHistoryPaths]_vars

-----------------------------------------------------------------------------
(* Overlapping cacheScript calls on one SubmitScriptCache object *)

\* Calls arrive while the update of an earlier call is in flight, as the
\* callbacks of overlapping refreshes make them.
NextOverlap ==
    \/ ScriptTick
    \/ ScriptCache
    \/ ScriptWriteDone
    \/ ScriptWriteFail

SpecOverlap == Init /\ [][NextOverlap]_vars


-----------------------------------------------------------------------------
(* The pages of the job history *)

\* What sacct lists: n jobs, named "a" and "B" in turn, with ids from 101.
HistoryOf(n) ==
    [i \in 1..n |->
        [jobId |-> ToText(100 + i),
         name |-> IF i % 2 = 1 THEN <<"a">> ELSE <<"B">>,
         version |-> 1]]

\* The lengths of the history a fetch returns: less than a page, three pages.
HistoryLengths == {3, 41}

HistoryResults == {HistoryOf(n) : n \in HistoryLengths}

\* The search terms entered: a name in the other case, and a part of the job
\* ids 114, 140 and 141.
SearchTerms == { <<"b">>, <<"1", "4">> }

DaysValues == {30}

NextPages ==
    \/ Refresh("history")
    \/ \E days \in DaysValues : setHistoryDays(days)
    \/ \E filter \in SearchTerms : setSearchFilter(filter)
    \/ clearSearchFilter
    \/ nextPage
    \/ previousPage
    \/ \E r \in HistoryResults : HistoryGetRootItems(r)
    \/ \E k \in 1..MaxInFlight, ok \in BOOLEAN, r \in HistoryResults :
          HistoryAvailable(k, ok, r)
    \/ \E k \in 1..MaxInFlight : Fetched("history", k)

SpecPages == Init /\ [][NextPages]_vars


-----------------------------------------------------------------------------
(* The auto-refresh timer over the settings *)

\* The values of autoRefreshInterval: below the minimum, the minimum, the
\* default.
IntervalValues == {4, 5, 30}

NextTimer ==
    \/ activate
    \/ \E enabled \in BOOLEAN, interval \in IntervalValues :
          ConfigurationChange(enabled, interval)
    \/ \E handle \in 1..MaxIntervals : IntervalElapsed(handle)
    \/ deactivate

SpecTimer == Init /\ [][NextTimer]_vars

-----------------------------------------------------------------------------
(* Properties of the pin cache (SpecPin) *)

\* C1: cleanupStaleJobs(activeIds) removes a pin if and only if its job id is
\* absent from activeIds and it was pinned more than 7 days before the call;
\* every other pin is kept with its timestamp unchanged.
C1_CleanupRemovesOnlyStaleInactive ==
    [][(lastCall'.obj = "pin" /\ lastCall'.op = "cleanupStaleJobs") =>
          /\ DOMAIN pinnedJobs' =
                {j \in DOMAIN pinnedJobs :
                    j \in lastCall'.arg \/ now - pinnedJobs[j] <= 7 * DayLen}
          /\ \A j \in DOMAIN pinnedJobs' : pinnedJobs'[j] = pinnedJobs[j]]_vars

\* A cleanup has just removed a pin while keeping one that is older than the
\* window because its job is still active.
C1_Witness ==
    /\ lastCall.obj = "pin"
    /\ lastCall.op = "cleanupStaleJobs"
    /\ pinWrites # <<>>
    /\ pinWrites[Len(pinWrites)].op = "cleanupStaleJobs"
    /\ \E j \in DOMAIN pinnedJobs :
          j \in lastCall.arg /\ now - pinnedJobs[j] > 7 * DayLen

-----------------------------------------------------------------------------
(* Properties of the path cache (SpecPath) *)

\* C5: no stored entry has both paths unresolved (empty or 'N/A'), and a set
\* whose two paths are both unresolved leaves the map, any existing entry for
\* the id and the persisted store unchanged.
C5_NeverBothUnresolved ==
    /\ [](\A j \in DOMAIN pathCache :
            ~(/\ pathCache[j].stdoutPath \in {EmptyStr, NA}
              /\ pathCache[j].stderrPath \in {EmptyStr, NA}))
    /\ [][(/\ lastCall'.obj = "path"
           /\ lastCall'.op = "set"
           /\ lastCall'.arg[1] \in {EmptyStr, NA}
           /\ lastCall'.arg[2] \in {EmptyStr, NA}) =>
              /\ pathCache' = pathCache
              /\ pathStore' = pathStore
              /\ pathWrites' = pathWrites]_vars

\* A set with both paths unresolved has just returned for an id that already
\* has an entry.
C5_Witness ==
    /\ lastCall.obj = "path"
    /\ lastCall.op = "set"
    /\ lastCall.arg[1] \in {EmptyStr, NA}
    /\ lastCall.arg[2] \in {EmptyStr, NA}
    /\ lastCall.id \in DOMAIN pathCache
    /\ lastRet.op = "set"

-----------------------------------------------------------------------------
(* Properties of the script cache (SpecScript) *)

\* C2: cacheScript is idempotent per job id: as long as the cache object has
\* not been cleared, all calls for one id that return a path return the same
\* path, and the original file is copied at most once for that id (the map
\* holds at most one entry per id by construction).
C2_CacheScriptIdempotent ==
    ~scriptHist.cleared =>
        \A j \in JobIds :
            /\ scriptHist.copies[j] <= 1
            /\ Cardinality(scriptHist.paths[j]) <= 1
            /\ (scriptHist.paths[j] # {} /\ j \in DOMAIN scriptCache) =>
                   scriptHist.paths[j] = {scriptCache[j].cachedPath}

\* A second cacheScript call for an id has just returned the archived path
\* without copying, after an earlier call for the id returned it.
C2_Witness ==
    /\ ~scriptHist.cleared
    /\ lastCall.obj = "script"
    /\ lastCall.op = "cacheScript"
    /\ ~lastCall.copied
    /\ lastRet.value # None
    /\ scriptHist.returns[lastCall.id] >= 2
    /\ scriptHist.copies[lastCall.id] = 1
    /\ now > scriptCache[lastCall.id].cachedAt

-----------------------------------------------------------------------------
(* Properties of the caches over sessions (SpecCaches) *)

\* The construction-time cleanup of the path cache and of the script cache:
\* the stored map is loaded in full, every entry older than 30 days is dropped,
\* and one globalState.update with the result is issued if anything was dropped.
PathCachePurgedOnConstruction ==
    /\ \A j \in DOMAIN pathCache : now - pathCache[j].cachedAt <= 30 * DayLen
    /\ \A j \in DOMAIN pathStore :
          now - pathStore[j].cachedAt <= 30 * DayLen =>
              j \in DOMAIN pathCache /\ pathCache[j] = pathStore[j]
    /\ DOMAIN pathCache \subseteq DOMAIN pathStore
    /\ pathWrites = IF pathCache = pathStore THEN <<>>
                    ELSE <<Write(pathCache, "ctor", EmptyStr, None)>>

ScriptCachePurgedOnConstruction ==
    /\ \A j \in DOMAIN scriptCache : now - scriptCache[j].cachedAt <= 30 * DayLen
    /\ \A j \in DOMAIN scriptStore :
          now - scriptStore[j].cachedAt <= 30 * DayLen =>
              j \in DOMAIN scriptCache /\ scriptCache[j] = scriptStore[j]
    /\ DOMAIN scriptCache \subseteq DOMAIN scriptStore
    /\ scriptWrites = IF scriptCache = scriptStore THEN <<>>
                      ELSE <<Write(scriptCache, "ctor", EmptyStr, None)>>

\* C3 (as stated): right after construction no in-memory entry of any of the
\* three stores is older than the store's maximum age (30 days for paths and
\* scripts, 7 days for pins).
C3_EveryStorePurgedOnConstruction ==
    lastRet.op = "activate" =>
        /\ PathCachePurgedOnConstruction
        /\ ScriptCachePurgedOnConstruction
        /\ \A j \in DOMAIN pinnedJobs : now - pinnedJobs[j] <= 7 * DayLen

\* C3 (as amended): right after construction the path cache and the script
\* cache hold no entry older than 30 days, having issued a save if anything
\* was removed; the pin cache holds exactly the stored pins, of any age.
C3_PathsAndScriptsPurgedOnConstruction ==
    lastRet.op = "activate" =>
        /\ PathCachePurgedOnConstruction
        /\ ScriptCachePurgedOnConstruction
        /\ pinnedJobs = pinStore
        /\ pinWrites = <<>>

\* A session has just started in which the path cache and the script cache
\* each dropped an old entry and the pin cache loaded a pin older than 7 days.
C3_Witness ==
    /\ lastRet.op = "activate"
    /\ DOMAIN pathStore \ DOMAIN pathCache # {}
    /\ DOMAIN scriptStore \ DOMAIN scriptCache # {}
    /\ pathWrites # <<>>
    /\ scriptWrites # <<>>
    /\ \E j \in DOMAIN pinnedJobs : now - pinnedJobs[j] > 7 * DayLen

\* A mutation (not a call that changes nothing, nor a cacheScript that
\* returned undefined) of the given cache has just returned.
MutationReturned(obj) ==
    /\ lastRet.obj = obj
    /\ lastRet.status = "ok"
    /\ lastCall.op = "none"
    /\ ~(lastRet.op = "cacheScript" /\ lastRet.value = None)

\* C4: when a mutation of a cache or a constructor's cleanup pass has
\* returned, the map persisted under the cache's key equals the in-memory map.
C4_PersistedBeforeReturn ==
    /\ MutationReturned("path") => pathStore = pathCache
    /\ MutationReturned("script") => scriptStore = scriptCache
    /\ MutationReturned("pin") => pinStore = pinnedJobs
    /\ lastRet.op = "activate" =>
          /\ pathStore = pathCache
          /\ scriptStore = scriptCache
          /\ pinStore = pinnedJobs

-----------------------------------------------------------------------------
(* Properties of SlurmService (SpecJobs) *)

\* The returned job is the parsed one with the fields of its own scontrol
\* answer copied into it.
EnrichedFrom(job, parsed, out) ==
    LET e == Enriched(parsed, getJobDetails(out))
    IN  /\ job.jobId = e.jobId
        /\ job.stdoutPath = e.stdoutPath
        /\ job.stderrPath = e.stderrPath
        /\ job.submitScript = e.submitScript
        /\ job.workDir = e.workDir
        /\ job.gpuCount = e.gpuCount
        /\ job.gpuType = e.gpuType
        /\ job.memory = e.memory

\* The call has returned one job per parsed line, each enriched from its own
\* scontrol answer.
ReturnedAllEnriched ==
    /\ getJobsRet.status = "returned"
    /\ Len(getJobsRet.value) = Len(fetchLog.parsed)
    /\ \A i \in DOMAIN getJobsRet.value :
          /\ fetchLog.scontrol[i] # None
          /\ EnrichedFrom(getJobsRet.value[i], fetchLog.parsed[i], fetchLog.scontrol[i][1])

\* C6: a getJobs() call during which an update of the path cache or of the
\* script cache was rejected still returns every parsed job, enriched (it
\* neither throws nor returns an empty set), and every callback runs to its
\* end, so the other cache is still called.
C6_CachePersistenceFailureContained ==
    (fetchLog.squeue = "ok" /\ fetchLog.rejected # {} /\ getJobsRet.status # "none") =>
        /\ ReturnedAllEnriched
        /\ \A i \in DOMAIN cbPc : cbPc[i] # "rejected"

\* C7: in a getJobs() call in which scontrol failed for a job, that job is
\* returned with 'N/A' paths, script and work directory and without GPU and
\* memory, and every other job is returned enriched from its own scontrol
\* answer.
C7_DetailFailureIsolated ==
    (/\ fetchLog.squeue = "ok"
     /\ getJobsRet.status # "none"
     /\ \E i \in DOMAIN fetchLog.scontrol :
           fetchLog.scontrol[i] # None /\ ~fetchLog.scontrol[i][1].ok) =>
        /\ ReturnedAllEnriched
        /\ \A i \in DOMAIN getJobsRet.value :
              ~fetchLog.scontrol[i][1].ok =>
                  /\ getJobsRet.value[i].stdoutPath = NA
                  /\ getJobsRet.value[i].stderrPath = NA
                  /\ getJobsRet.value[i].submitScript = NA
                  /\ getJobsRet.value[i].workDir = NA
                  /\ getJobsRet.value[i].gpuCount = None
                  /\ getJobsRet.value[i].gpuType = None
                  /\ getJobsRet.value[i].memory = None

\* C8: when squeue fails getJobs returns the empty array, when sacct fails
\* getJobHistory returns the empty array, and neither ever throws.
C8_ListCommandFailureYieldsEmpty ==
    /\ getJobsRet.status # "threw"
    /\ historyRet.result.status # "threw"
    /\ fetchLog.squeue = "fail" =>
          getJobsRet.status = "returned" /\ getJobsRet.value = <<>>
    /\ historyRet.sacct = "fail" =>
          historyRet.result.status = "returned" /\ historyRet.result.value = <<>>

\* Both list commands have failed and both calls have returned.
C8_Witness ==
    /\ fetchLog.squeue = "fail"
    /\ getJobsRet.status = "returned"
    /\ historyRet.sacct = "fail"
    /\ historyRet.result.status = "returned"

-----------------------------------------------------------------------------
(* Properties of the tree views (SpecViews) *)

\* Nothing of the provider is in progress: no getRootItems() call, no
\* change event the view has yet to answer.
Quiet(p) == rootCalls[p] = <<>> /\ ~fired[p]

\* C9: once the overlapping requests of a provider are over, the records it
\* holds are the result of the fetch started last; and what it holds is at
\* all times the whole result of one fetch.
C9_LastStartedFetchWins ==
    \A p \in Providers :
        /\ (Quiet(p) /\ cachedJobs[p] # <<>>) => cachedJobs[p] = lastStarted[p][1]
        /\ cachedJobs[p] \in {<<>>} \cup {Listing(v) : v \in 1..MaxVersions}

-----------------------------------------------------------------------------
(* Properties of the cancel command (SpecCancel) *)

\* C10: an invocation that read confirmCancelJob as enabled has called
\* scancel only with 'Cancel Job' chosen in the modal dialog, and an
\* invocation in which the quick pick, the input box or the dialog was
\* dismissed has called neither scancel nor refresh.
C10_ScancelOnlyAfterConfirmation ==
    /\ (cmd.confirmCancel /\ cmd.scancelled) => cmd.confirmation = Some("Cancel Job")
    /\ cmd.dismissed => ~cmd.scancelled /\ ~cmd.refreshed
    /\ Len(scancelCalls) <= commands
    /\ (cmd.pc = "scancel") => cmd.scancelled /\ scancelCalls # <<>>
                               /\ scancelCalls[Len(scancelCalls)] = cmd.jobIdToCancel

\* With the setting enabled, one task of an array was picked, typed, confirmed
\* and cancelled, and the job view was refreshed.
C10_Witness ==
    /\ cmd.pc = "idle"
    /\ cmd.confirmCancel
    /\ cmd.confirmation = Some("Cancel Job")
    /\ cmd.jobIdToCancel = <<"7", "_", "3">>
    /\ cmd.scancelled
    /\ cmd.refreshed
    /\ scancelCalls[Len(scancelCalls)] = <<"7", "_", "3">>

-----------------------------------------------------------------------------
(* Properties of the selector validator (SpecSelector) *)

Called == ret # NotCalled

\* The indices a form of the grammar stands for, as a set.
IntendedIndices(f) ==
    CASE f.kind = "range" -> f.low .. f.high
      [] f.kind = "stepped" -> {i \in f.low .. f.high : (i - f.low) % f.step = 0}
      [] f.kind = "list" -> {f.indices[i] : i \in DOMAIN f.indices}
      [] OTHER -> {}

\* The form is one of the three indexed forms of the grammar.
IndexedForm(f) ==
    \/ f.kind = "range" /\ f.low <= f.high
    \/ f.kind = "stepped" /\ f.low <= f.high /\ f.step >= 1
    \/ f.kind = "list"

Repeats(q) == \E i, k \in DOMAIN q : i # k /\ q[i] = q[k]

\* The form is valid for the bounds of the request.
ValidRequest(a) ==
    \/ a.form.kind = "entire"
    \/ /\ IndexedForm(a.form)
       /\ \A i \in IntendedIndices(a.form) : a.low <= i /\ i <= a.high
       /\ a.form.kind = "list" => ~Repeats(a.form.indices)

\* The index an identifier names, read back from its text: baseId_<digits>
IndexOf(id, baseId) ==
    LET text == SubSeq(id, Len(baseId) + 2, Len(id))
    IN  IF StartsWith(id, baseId \o <<"_">>) /\ IsInteger(text)
          THEN Some(ToInteger(text)) ELSE None

\* C11: a request one of whose resolved indices lies outside [low, high] is
\* rejected whole, with no identifier and with an index outside the bounds
\* reported, and an explicit list that repeats an index is rejected with no
\* identifier.
C11_OutOfBoundsAndDuplicatesRejected ==
    (Called /\ IndexedForm(args.form)) =>
        LET outside == {i \in IntendedIndices(args.form) : i < args.low \/ i > args.high}
        IN  /\ outside # {} =>
                /\ ~ret.value.ok
                /\ ret.value.ids = <<>>
                /\ ret.value.reason = "out of bounds"
                /\ ret.value.index # None
                /\ ret.value.index[1] \in outside
            /\ (args.form.kind = "list" /\ Repeats(args.form.indices)) =>
                /\ ~ret.value.ok
                /\ ret.value.ids = <<>>

\* "0-50" against the bounds [0, 20] was rejected, index 21 reported.
C11_Witness ==
    /\ Called
    /\ args.selector = <<"0", "-", "5", "0">>
    /\ args.low = 0
    /\ args.high = 20
    /\ ~ret.value.ok
    /\ ret.value.ids = <<>>
    /\ ret.value.index = Some(21)

\* C12: a valid request within the bounds is accepted with the identifiers
\* of its indices, in order and without repetition: L-H gives H-L+1
\* identifiers baseId_L .. baseId_H, L-H:S gives baseId_L, baseId_(L+S), ...
\* up to H, a list gives its indices in the order typed, and the empty
\* selector gives the base id alone.
C12_ValidSelectorResolves ==
    (Called /\ ValidRequest(args)) =>
        LET f == args.form
            ids == ret.value.ids
            index(i) == IndexOf(ids[i], args.baseId)
        IN  /\ ret.value.ok
            /\ \A i, k \in DOMAIN ids : i # k => ids[i] # ids[k]
            /\ f.kind = "entire" => ids = <<args.baseId>>
            /\ f.kind = "range" =>
                /\ Len(ids) = f.high - f.low + 1
                /\ \A i \in DOMAIN ids : index(i) = Some(f.low + i - 1)
            /\ f.kind = "stepped" =>
                /\ Len(ids) = ((f.high - f.low) \div f.step) + 1
                /\ \A i \in DOMAIN ids : index(i) = Some(f.low + (i - 1) * f.step)
            /\ f.kind = "list" =>
                /\ Len(ids) = Len(f.indices)
                /\ \A i \in DOMAIN ids : index(i) = Some(f.indices[i])

\* "0-20:2" against the bounds [0, 20] gave the eleven identifiers 7_0, 7_2,
\* ..., 7_20.
C12_Witness ==
    /\ Called
    /\ args.baseId = <<"7">>
    /\ args.form.kind = "stepped" /\ args.form.low = 0 /\ args.form.high = 20
    /\ args.form.step = 2
    /\ args.low = 0 /\ args.high = 20
    /\ ret.value.ok
    /\ Len(ret.value.ids) = 11
    /\ ret.value.ids[1] = <<"7", "_", "0">>
    /\ ret.value.ids[2] = <<"7", "_", "2">>
    /\ ret.value.ids[11] = <<"7", "_", "2", "0">>

\* C13: a valid request is accepted whatever its size, and flagged for the
\* extra confirmation exactly when it resolves to more than 100 indices.
C13_LargeBatchFlaggedNotRejected ==
    (Called /\ ValidRequest(args)) =>
        /\ ret.value.ok
        /\ ret.value.flagged <=> Cardinality(IntendedIndices(args.form)) > 100

\* "0-100" against the bounds [0, 100] was accepted with 101 identifiers and
\* the flag.
C13_Witness ==
    /\ Called
    /\ args.form.kind = "range" /\ args.form.low = 0 /\ args.form.high = 100
    /\ args.low = 0 /\ args.high = 100
    /\ ret.value.ok
    /\ Len(ret.value.ids) = 101
    /\ ret.value.flagged

-----------------------------------------------------------------------------
(* The cancel command and the validator (SpecCancel) *)

\* What the request of the current invocation selects of the array baseId:
\* nothing for the entire array, the text after baseId_ otherwise.
RequestedSelector(c, baseId) ==
    IF c.jobIdToCancel = baseId THEN EmptyStr
    ELSE SubSeq(c.jobIdToCancel, Len(baseId) + 2, Len(c.jobIdToCancel))

\* C14: an invocation on a task of an array has called scancel only for the
\* base id or for baseId_<selector> with a selector that passes validation
\* against the array's actual bounds: well-formed, within the bounds, without
\* a repeated index.
C14_InvalidSelectorNeverCancelled ==
    (cmd.scancelled /\ Positions(cmd.jobId, "_") # {}) =>
        LET baseId == Split(cmd.jobId, "_")[1]
        IN  /\ cmd.jobIdToCancel = baseId \/ StartsWith(cmd.jobIdToCancel, baseId \o <<"_">>)
            /\ ValidateSelector(baseId, RequestedSelector(cmd, baseId),
                                ActualBounds[1], ActualBounds[2]).ok

-----------------------------------------------------------------------------
(* Properties of the time functions (SpecTime) *)

\* The durations of the four forms.
ValidDuration(f) == f.kind \in {"D-HH:MM:SS", "HH:MM:SS", "MM:SS", "SS"}

\* What parseTimeToSeconds returned for timeStr, if that was the call.
ParsedAs(timeStr, seconds) ==
    (Called /\ args.fn = "parseTimeToSeconds" /\ args.timeStr = timeStr) =>
        ret.value = seconds

\* For a duration printed as D-HH:MM:SS, HH:MM:SS, MM:SS or SS the result is
\* days*86400 + hours*3600 + minutes*60 + seconds, and it is -1 exactly for
\* '', 'N/A', 'UNLIMITED' and 'INVALID'.
ParseTimeExact ==
    (Called /\ args.fn = "parseTimeToSeconds") =>
        /\ ValidDuration(args.form) =>
             ret.value = args.form.days * 86400 + args.form.hours * 3600
                           + args.form.minutes * 60 + args.form.seconds
        /\ ret.value = -1 <=> args.timeStr \in {EmptyStr, NA, Unlimited, Invalid}

OneDayHalfHour == <<"1", "-", "0", "0", ":", "3", "0", ":", "0", "0">>

\* C15 as stated: parseTimeToSeconds returns the exact second count of every
\* valid duration, -1 exactly for the four unknown texts, and 90000 for
\* "1-00:30:00", 1800 for "30:00", 45 for "45".
C15_ParseTimeExactWithExamples ==
    /\ ParseTimeExact
    /\ ParsedAs(OneDayHalfHour, 90000)
    /\ ParsedAs(<<"3", "0", ":", "0", "0">>, 1800)
    /\ ParsedAs(<<"4", "5">>, 45)

\* C15, amended: the same, "1-00:30:00" giving 88200 (one day and half an
\* hour).
C15_ParseTimeExact ==
    /\ ParseTimeExact
    /\ ParsedAs(OneDayHalfHour, 88200)
    /\ ParsedAs(<<"3", "0", ":", "0", "0">>, 1800)
    /\ ParsedAs(<<"4", "5">>, 45)

\* "1-00:30:00" gave 88200.
C15_Witness ==
    /\ Called
    /\ args.fn = "parseTimeToSeconds"
    /\ args.timeStr = OneDayHalfHour
    /\ ret.value = 88200

\* The seconds of a duration of ProgressTimes, -1 for an unknown one; the
\* other raw texts are worth what the code makes of them.
SecondsOf(f, text) ==
    IF ValidDuration(f)
      THEN f.days * 86400 + f.hours * 3600 + f.minutes * 60 + f.seconds
    ELSE IF text \in {EmptyStr, NA, Unlimited, Invalid} THEN -1
    ELSE parseTimeToSeconds(text)

\* C16: calculateProgress returns -1 when a duration is unknown or the limit
\* is not positive, and otherwise the integer nearest to 100 * elapsed / limit,
\* or 100 when that is more; the result is -1 or within 0..100.
C16_ProgressRoundedAndCapped ==
    (Called /\ args.fn = "calculateProgress") =>
        LET e == SecondsOf(args.form, args.elapsed)
            l == SecondsOf(args.limitForm, args.limit)
            p == ret.value
        IN  /\ p = -1 \/ p \in 0..100
            /\ (e < 0 \/ l <= 0) => p = -1
            /\ (e >= 0 /\ l > 0) =>
                 \/ /\ p < 100
                    /\ 2 * (100 * e - p * l) <= l
                    /\ 2 * (p * l - 100 * e) <= l
                 \/ /\ p = 100
                    /\ 2 * (100 * l - 100 * e) <= l

\* "01:30:00" against the limit "01:00:00" gave 100.
C16_Witness ==
    /\ Called
    /\ args.fn = "calculateProgress"
    /\ args.elapsed = <<"0", "1", ":", "3", "0", ":", "0", "0">>
    /\ args.limit = <<"0", "1", ":", "0", "0", ":", "0", "0">>
    /\ ret.value = 100

-----------------------------------------------------------------------------
(* Properties of expandPathPlaceholders (SpecExpand) *)

\* The portion of id before its first '_', id itself without one.
BeforeFirstUnderscore(id) ==
    IF Positions(id, "_") = {} THEN id ELSE SubSeq(id, 1, Min(Positions(id, "_")) - 1)

\* The whole portion of id after its first '_', "0" without one.
AfterFirstUnderscore(id) ==
    IF Positions(id, "_") = {} THEN <<"0">>
    ELSE SubSeq(id, Min(Positions(id, "_")) + 1, Len(id))

\* The portion of id between its first '_' and its second, or its end; "0"
\* without a '_'.
AfterFirstToSecond(id) ==
    LET rest == AfterFirstUnderscore(id)
    IN  IF Positions(id, "_") = {} THEN <<"0">> ELSE BeforeFirstUnderscore(rest)

\* The path holds no placeholder but %A and %a, and no escaped percent.
OnlyArrayTokens(tokens) ==
    \A i \in DOMAIN tokens : tokens[i][1] = "%" => tokens[i] \in { <<"%", "A">>, <<"%", "a">> }

\* The tokens with master for each %A and index for each %a.
WithArrayParts(tokens, master, index) ==
    Flatten([i \in DOMAIN tokens |->
                IF tokens[i] = <<"%", "A">> THEN master
                ELSE IF tokens[i] = <<"%", "a">> THEN index
                ELSE tokens[i]])

ValueOf(token, a) ==
    CASE token = <<"%", "j">> -> a.jobId
      [] token = <<"%", "x">> -> a.jobName
      [] token = <<"%", "u">> -> Username
      [] token = <<"%", "N">> ->
            IF a.nodes \in {EmptyStr, NA} THEN PendingNode
            ELSE SubSeq(a.nodes, 1, Min(Positions(a.nodes, "[") \cup Positions(a.nodes, ",")
                                          \cup {Len(a.nodes) + 1}) - 1)
      [] token = <<"%", "A">> -> BeforeFirstUnderscore(a.jobId)
      [] token = <<"%", "a">> -> AfterFirstToSecond(a.jobId)
      [] token = <<"%", "t">> -> <<"0">>
      [] token = <<"%", "%">> -> <<"%">>

\* The path read once from left to right: each %% and each placeholder
\* gives its value as it is, every other character itself.
RECURSIVE ExpandedOnce(_, _)
ExpandedOnce(path, a) ==
    IF path = <<>> THEN <<>>
    ELSE IF Len(path) >= 2 /\ path[1] = "%"
            /\ path[2] \in {"j", "x", "u", "N", "A", "a", "t", "%"}
      THEN ValueOf(SubSeq(path, 1, 2), a) \o ExpandedOnce(SubSeq(path, 3, Len(path)), a)
    ELSE <<Head(path)>> \o ExpandedOnce(Tail(path), a)

\* C18: every %% becomes one '%' and every occurrence of %j %x %u %N %A %a
\* %t its value as literal text, as if all were replaced at once: text a
\* substitution inserted and text next to a %% is not expanded again.
C18_LiteralOrderFreeExpansion ==
    Called => ret.value = ExpandedOnce(args.path, args)

-----------------------------------------------------------------------------
(* Properties of getJobHistory (SpecHistory) *)

HistoryReturned == historyRet.result.status = "returned"

\* A reported line that is to give a record: at least 9 fields, not a job
\* step, not running or pending.
Recorded(f) ==
    /\ f.fields >= 9
    /\ Positions(f.jobId, ".") = {}
    /\ f.state \notin {Running, Pending}

\* The record is the one of the reported job f.
RecordOf(r, f) ==
    /\ r.jobId = f.jobId
    /\ r.state = f.state
    /\ r.endTime = (IF f.end = EmptyStr THEN NA ELSE f.end)

\* C19: getJobHistory returns no record whose id holds a '.' and none whose
\* state is RUNNING or PENDING, and exactly one record for every other line
\* of at least 9 fields.
C19_StepsAndActiveJobsExcluded ==
    HistoryReturned =>
        LET result == historyRet.result.value
            fs == args.forms
        IN  /\ \A i \in DOMAIN result :
                  /\ Positions(result[i].jobId, ".") = {}
                  /\ result[i].state \notin {Running, Pending}
            /\ Len(result) = Cardinality({k \in DOMAIN fs : Recorded(fs[k])})
            /\ \A k \in DOMAIN fs : Recorded(fs[k]) =>
                  Cardinality({i \in DOMAIN result : RecordOf(result[i], fs[k])})
                    = Cardinality({n \in DOMAIN fs : fs[n] = fs[k]})

\* Of a job and one of its steps, the job alone was returned.
C19_Witness ==
    /\ HistoryReturned
    /\ Len(args.forms) = 2
    /\ args.forms[1].jobId = <<"5">>
    /\ args.forms[2].jobId = <<"5", ".", "0">>
    /\ Len(historyRet.result.value) = 1
    /\ historyRet.result.value[1].jobId = <<"5">>

\* The record has an end timestamp.
HasEnd(r) == GetTime(r.endTime) # None

\* C20: in the list getJobHistory returns, of two records with an end
\* timestamp the one that ended later comes first, and a record without an
\* end timestamp comes after every record that has one.
C20_SortedByEndDescending ==
    HistoryReturned =>
        LET result == historyRet.result.value
        IN  \A i, k \in DOMAIN result :
              /\ (HasEnd(result[i]) /\ HasEnd(result[k])
                    /\ GetTime(result[i].endTime)[1] > GetTime(result[k].endTime)[1])
                   => i < k
              /\ (HasEnd(result[i]) /\ ~HasEnd(result[k])) => i < k

-----------------------------------------------------------------------------
(* Properties of one getJobs() refresh (SpecFetch) *)

\* The fields of a record that squeue's line gives.
BaseRecord(job) ==
    <<job.jobId, job.name, job.state, job.time, job.partition, job.nodes,
      job.timeLimit, job.startTime>>

\* The node's GPU name and memory are in the record.
HasGpuTelemetry(job) == job.gpuName # None /\ job.gpuMemory # None

\* The node's GPU name or memory is in the record.
SomeGpuTelemetry(job) == job.gpuName # None \/ job.gpuMemory # None

\* C21: in a getJobs() call every line of squeue is parsed into its record
\* before scontrol answers for any job (no record is added or re-parsed
\* later); a record carries gpuName or gpuMemory only once every callback
\* of the call has run to its end and the call has returned; then either
\* every job in state R carries both or none does, and no other job carries
\* either.
C21_GpuTelemetryAfterAllEnrichment ==
    /\ fetchLog.squeue = "ok" =>
          /\ Len(jobs) = Len(fetchLog.parsed)
          /\ \A i \in DOMAIN jobs : BaseRecord(jobs[i]) = BaseRecord(fetchLog.parsed[i])
    /\ (\E i \in DOMAIN jobs : SomeGpuTelemetry(jobs[i])) =>
          /\ \A k \in DOMAIN cbPc : cbPc[k] = "done" /\ fetchLog.scontrol[k] # None
          /\ getJobsRet = Returned(jobs)
    /\ \A i \in DOMAIN jobs :
          /\ jobs[i].state # <<"R">> => ~SomeGpuTelemetry(jobs[i])
          /\ \A k \in DOMAIN jobs :
                (jobs[i].state = <<"R">> /\ jobs[k].state = <<"R">>) =>
                    /\ SomeGpuTelemetry(jobs[i]) => HasGpuTelemetry(jobs[k])
                    /\ jobs[i].gpuName = jobs[k].gpuName
                    /\ jobs[i].gpuMemory = jobs[k].gpuMemory

\* A call over two running jobs and a waiting one has returned: both
\* running jobs carry the telemetry, the waiting one does not.
C21_Witness ==
    /\ getJobsRet.status = "returned"
    /\ Len(jobs) = 3
    /\ jobs[1].state = <<"R">> /\ HasGpuTelemetry(jobs[1])
    /\ jobs[2].state = <<"P", "D">> /\ ~SomeGpuTelemetry(jobs[2])
    /\ jobs[3].state = <<"R">> /\ HasGpuTelemetry(jobs[3])

-----------------------------------------------------------------------------
(* Properties of getJobDetails' GPU extraction (SpecDetails) *)

\* What the strategies find in a blob, in their order: the type and count of
\* TresPerNode, the type and count of AllocTRES, the count of AllocTRES, the
\* type and count or the count of Gres.
Strategies(b) ==
    << IF b.tresPerNode # None /\ b.tresPerNode[1].kind = "typed"
         THEN Some(b.tresPerNode[1]) ELSE None,
       IF b.allocTres # None THEN b.allocTres[1].typed ELSE None,
       IF b.allocTres # None /\ b.allocTres[1].count # None
         THEN Some(CountOnly(b.allocTres[1].count[1])) ELSE None,
       IF b.gres # None /\ b.gres[1].kind # "none" THEN b.gres ELSE None >>

\* The fields the first strategy that finds something gives; both absent when
\* none does.
FirstSuccess(b) ==
    LET found == {k \in 1..4 : Strategies(b)[k] # None}
    IN  IF found = {} THEN GpuFields(None, None)
        ELSE LET f == Strategies(b)[Min(found)][1]
             IN  GpuFields(Some(f.count),
                           IF f.kind = "typed" THEN Some(ToUpperCase(f.type)) ELSE None)

\* C22: gpuCount and gpuType returned by getJobDetails are those of the first
\* of the four strategies that matches (a count of 0 included), and both are
\* absent when none matches or Gres is (null).
C22_FirstMatchingStrategyWins ==
    Called => ret.value = FirstSuccess(args.blob)

-----------------------------------------------------------------------------
(* Properties of getHistoryJobPaths (SpecHistoryPaths) *)

\* The two paths of a cache entry.
PairOf(entry) == PathPair(entry.stdoutPath, entry.stderrPath)

\* A call that found the cache holding an entry returned that pair and did
\* not run scontrol.
ReadThrough ==
    \A k \in DOMAIN pathCalls :
        pathCalls[k].cached # None =>
            /\ pathCalls[k].pc = "returned"
            /\ pathCalls[k].value = pathCalls[k].cached
            /\ ~pathCalls[k].executed

\* Once scontrol has given a call a pair with a path in it, the cache holds
\* that pair, and a call made after that returned it without running scontrol.
WriteThrough ==
    \A k \in DOMAIN pathCalls :
        /\ pathCalls[k].resolved # None =>
              /\ pathCalls[k].jobId \in DOMAIN pathCache
              /\ PairOf(pathCache[pathCalls[k].jobId]) = pathCalls[k].resolved[1]
        /\ pathCalls[k].prior # {} =>
              /\ ~pathCalls[k].executed
              /\ pathCalls[k].pc = "returned"
              /\ pathCalls[k].prior = {pathCalls[k].value[1]}

\* A call that found nothing in the cache and got no path from scontrol
\* returned 'N/A' twice.
NeitherSource ==
    \A k \in DOMAIN pathCalls :
        (pathCalls[k].cached = None /\ pathCalls[k].answered /\ pathCalls[k].resolved = None) =>
            /\ pathCalls[k].pc = "returned"
            /\ pathCalls[k].value = Some(PathPair(NA, NA))

\* The step in which scontrol gives a call no path leaves the cache and its
\* stored copy as they were.
NeitherSourceStep ==
    \A k \in DOMAIN pathCalls :
        (/\ pathCalls[k].pc = "scontrol"
         /\ k \in DOMAIN pathCalls'
         /\ pathCalls'[k].answered
         /\ pathCalls'[k].resolved = None) =>
            UNCHANGED <<pathCache, pathStore, pathWrites>>

\* C23: getHistoryJobPaths returns the cached pair without running scontrol
\* when the cache holds an entry for the id; once scontrol has given a call
\* at least one path the pair is in the cache and every later call for the id
\* returns it without running scontrol; when neither the cache nor scontrol
\* gives a path it returns N/A for both and leaves the cache unchanged.
C23_ReadThroughWriteThrough ==
    /\ [](ReadThrough /\ WriteThrough /\ NeitherSource)
    /\ [][NeitherSourceStep]_vars

\* A call got one path from scontrol, a later call for the same job returned
\* the same pair from the cache, and a call for another job got nothing.
C23_Witness ==
    /\ Len(pathCalls) = 3
    /\ \A k \in 1..3 : pathCalls[k].pc = "returned"
    /\ pathCalls[1].jobId = JobB /\ pathCalls[1].value = Some(PathPair(NA, ErrPath))
    /\ pathCalls[1].executed
    /\ pathCalls[2].jobId = JobB /\ pathCalls[2].value = Some(PathPair(NA, ErrPath))
    /\ ~pathCalls[2].executed
    /\ pathCalls[3].jobId = JobA /\ pathCalls[3].value = Some(PathPair(NA, NA))
    /\ pathCalls[3].executed

-----------------------------------------------------------------------------
(* Properties of the archived files (SpecScript) *)

\* The entries of map before that the step of call op removed.
PurgedBy(op, before) ==
    IF lastCall'.obj = "script" /\ lastCall'.op = op
      THEN {before[j] : j \in (DOMAIN before) \ (DOMAIN scriptCache')}
      ELSE {}

\* C24: when the constructor's cleanup or clear() of SubmitScriptCache has
\* removed an entry, the archived file of that entry no longer exists.
C24_PurgedEntriesLeaveNoFile ==
    [][/\ \A e \in PurgedBy("ctor", scriptStore) : e.cachedPath \notin files'
       /\ \A e \in PurgedBy("clear", scriptCache) : e.cachedPath \notin files']_vars

ReturnedUndefined(r) == r.obj = "script" /\ r.op = "cacheScript" /\ r.value = None

\* C26: when cacheScript(id, path) has returned undefined the cache holds no
\* entry for id, and a call that returns undefined at once leaves the map and
\* the archived files as they were.
C26_FailedCacheScriptLeavesNothing ==
    /\ [](ReturnedUndefined(lastRet) => lastRet.id \notin DOMAIN scriptCache)
    /\ [][(ReturnedUndefined(lastRet') /\ lastCall'.op = "cacheScript") =>
              UNCHANGED <<scriptCache, scriptStore, files>>]_vars

-----------------------------------------------------------------------------
(* Properties of overlapping cacheScript calls (SpecOverlap) *)

\* The archived paths the calls for job id j still awaiting their update
\* will return.
AwaitedPaths(j) ==
    {scriptWrites[n].value[1] :
        n \in {i \in DOMAIN scriptWrites :
                 scriptWrites[i].op = "cacheScript" /\ scriptWrites[i].id = j}}

\* C27: however cacheScript calls for one job id overlap, the original file
\* is copied at most once for the id, and every path a call has returned or
\* is about to return is the one archived path of the id's entry.
C27_OverlappingCallsCopyOnce ==
    \A j \in JobIds :
        /\ scriptHist.copies[j] <= 1
        /\ Cardinality(scriptHist.paths[j] \cup AwaitedPaths(j)) <= 1
        /\ scriptHist.paths[j] \cup AwaitedPaths(j) # {} =>
              /\ j \in DOMAIN scriptCache
              /\ scriptHist.paths[j] \cup AwaitedPaths(j) = {scriptCache[j].cachedPath}

\* A call for an id has returned the archived path while the call that
\* copied the file still awaits its update.
C27_Witness ==
    /\ lastRet.obj = "script"
    /\ lastRet.op = "cacheScript"
    /\ lastRet.value # None
    /\ AwaitedPaths(lastRet.id) = {lastRet.value[1]}
    /\ scriptHist.copies[lastRet.id] = 1

-----------------------------------------------------------------------------
(* Properties of refresh() (SpecViews) *)

\* C28: the records a root getChildren call that began after refresh()
\* renders never come from a fetch that was started before that refresh().
C28_RefreshNeverServedByEarlierFetch ==
    \A p \in Providers :
        viewLog[p].rendered # None =>
            ~(viewLog[p].rendered[1].after /\ viewLog[p].rendered[1].old)

-----------------------------------------------------------------------------
(* Properties of the pages of the job history (SpecPages) *)

\* The last page of n filtered records.
LastPage(n) == Max({0, CeilDiv(n, itemsPerPage) - 1})

\* C29: whenever a page of the job history is rendered, its index is between
\* 0 and the last page of the records the filter keeps, and it shows at least
\* one job when the filter keeps one.
C29_RenderedPageWithinRange ==
    pageLog # None =>
        /\ 0 <= pageLog[1].currentPage
        /\ pageLog[1].currentPage <= LastPage(pageLog[1].filteredJobs)
        /\ pageLog[1].filteredJobs > 0 => pageLog[1].pageJobs > 0

-----------------------------------------------------------------------------
(* Properties of the auto-refresh timer (SpecTimer) *)

\* C30: at most one auto-refresh interval timer exists at any time; one exists
\* only while autoRefreshEnabled is true and autoRefreshInterval is at least
\* 5; none remains after deactivate.
C30_AtMostOneTimerWhileEnabled ==
    /\ Cardinality(intervals) <= 1
    /\ intervals # {} => autoRefreshEnabled /\ autoRefreshInterval >= 5
    /\ activation = "deactivated" => intervals = {}

\* The timer was restarted by a change of the settings and runs, and both
\* views were refreshed by it.
C30_Witness ==
    /\ activation = "active"
    /\ intervalsSet >= 2
    /\ Cardinality(intervals) = 1
    /\ \A p \in Providers : viewLog[p].refreshed

====
